---- MODULE Spec2Model ----
(***************************************************************************)
(* A model of the core subsystems of hoi-InsolvencyBot:                    *)
(*   - answer_question   (src/src/hoi_insolvencybot/insolvency_bot.py)     *)
(*   - extract_references (same file)                                      *)
(*   - TokenBucket / RateLimiter (src/src/hoi_insolvencybot/security.py)   *)
(*   - MetricsCollector (src/src/hoi_insolvencybot/monitoring.py)          *)
(*   - the batch runner main() (src/src/hoi_insolvencybot/__main__.py)     *)
(*   - the /ask route with its RequestTracker (src/api.py)                 *)
(* Strings are sequences of one-character strings, so that strip, lower,   *)
(* split, substring tests and the regular expressions are computed rather  *)
(* than assumed.                                                           *)
(***************************************************************************)
EXTENDS Integers, Sequences, FiniteSets, TLC

----------------------------------------------------------------------------
(* Characters and Python str helpers                                        *)

Upper == {"A","B","C","D","E","F","G","H","I","J","K","L","M",
          "N","O","P","Q","R","S","T","U","V","W","X","Y","Z"}

Lower == {"a","b","c","d","e","f","g","h","i","j","k","l","m",
          "n","o","p","q","r","s","t","u","v","w","x","y","z"}

Digit == {"0","1","2","3","4","5","6","7","8","9"}

\* str.isspace() characters that can occur in the modelled texts
Whitespace == {" ", "\t", "\n", "\r", "\f"}

\* the regular expression class \w
WordChar == Upper \cup Lower \cup Digit \cup {"_"}

UpperSeq == <<"A","B","C","D","E","F","G","H","I","J","K","L","M",
              "N","O","P","Q","R","S","T","U","V","W","X","Y","Z">>

LowerSeq == <<"a","b","c","d","e","f","g","h","i","j","k","l","m",
              "n","o","p","q","r","s","t","u","v","w","x","y","z">>

\* str.lower() of one character
LowerChar(c) ==
    IF c \in Upper
    THEN LowerSeq[CHOOSE k \in 1..26 : UpperSeq[k] = c]
    ELSE c

\* str.upper() of one character
UpperChar(c) ==
    IF c \in Lower
    THEN UpperSeq[CHOOSE k \in 1..26 : LowerSeq[k] = c]
    ELSE c

\* str.lower()
ToLower(s) == [k \in 1..Len(s) |-> LowerChar(s[k])]

\* s[a:b] with 1-based inclusive bounds a..b (empty when a > b)
Slice(s, a, b) == IF a > b THEN <<>> ELSE SubSeq(s, a, b)

\* str.lstrip()
RECURSIVE LStrip(_)
LStrip(s) ==
    IF s # <<>> /\ Head(s) \in Whitespace THEN LStrip(Tail(s)) ELSE s

\* str.rstrip()
RECURSIVE RStrip(_)
RStrip(s) ==
    IF s # <<>> /\ s[Len(s)] \in Whitespace
    THEN RStrip(SubSeq(s, 1, Len(s) - 1))
    ELSE s

\* str.strip()
Strip(s) == LStrip(RStrip(s))

\* sub in s
Contains(sub, s) ==
    \E k \in 1..(Len(s) - Len(sub) + 1) : SubSeq(s, k, k + Len(sub) - 1) = sub

\* c in s for a single character
HasChar(c, s) == \E k \in 1..Len(s) : s[k] = c

\* s.split(".")[-1] : what follows the last "." (all of s when there is none)
LastDotField(s) ==
    LET dots == {k \in 1..Len(s) : s[k] = "."}
    IN IF dots = {} THEN s
       ELSE Slice(s, (CHOOSE k \in dots : \A j \in dots : j <= k) + 1, Len(s))

\* x in list
InList(x, list) == \E k \in 1..Len(list) : list[k] = x

\* no entry of the list occurs twice
NoDuplicates(list) ==
    \A j, k \in 1..Len(list) : j # k => list[j] # list[k]

----------------------------------------------------------------------------
(* Regular expressions (Python re, backtracking semantics)                  *)
(* A pattern is a syntax tree; MatchEnds gives the end positions of the    *)
(* matches that start at position i, in the order the backtracking matcher *)
(* tries them, so its first element is the match re reports.               *)

Lit(str) == [t |-> "lit", s |-> str]

Set(chars) == [t |-> "set", cs |-> chars]

Cat(parts) == [t |-> "cat", rs |-> parts]

Alt(parts) == [t |-> "alt", rs |-> parts]

Opt(r) == [t |-> "opt", r |-> r]

Star(r) == [t |-> "star", r |-> r]

Plus(r) == Cat(<<r, Star(r)>>)

Rep(r, n) == Cat([k \in 1..n |-> r])

\* one character against a literal character (re.IGNORECASE when ic)
CharEq(c, d, ic) == IF ic THEN LowerChar(c) = LowerChar(d) ELSE c = d

\* one character against a class (re.IGNORECASE when ic)
CharIn(c, cs, ic) ==
    IF ic THEN c \in cs \/ LowerChar(c) \in cs \/ UpperChar(c) \in cs
    ELSE c \in cs

RECURSIVE MatchEnds(_, _, _, _)
RECURSIVE CatEnds(_, _, _, _, _)
RECURSIVE EachCat(_, _, _, _, _)
RECURSIVE AltEnds(_, _, _, _, _)
RECURSIVE StarEnds(_, _, _, _)
RECURSIVE EachStar(_, _, _, _)

MatchEnds(r, s, i, ic) ==
    CASE r.t = "lit" ->
           IF /\ i + Len(r.s) - 1 <= Len(s)
              /\ \A k \in 1..Len(r.s) : CharEq(s[i + k - 1], r.s[k], ic)
           THEN <<i + Len(r.s)>>
           ELSE <<>>
      [] r.t = "set" ->
           IF i <= Len(s) /\ CharIn(s[i], r.cs, ic) THEN <<i + 1>> ELSE <<>>
      [] r.t = "cat" -> CatEnds(r.rs, 1, s, i, ic)
      [] r.t = "alt" -> AltEnds(r.rs, 1, s, i, ic)
      [] r.t = "opt" -> MatchEnds(r.r, s, i, ic) \o <<i>>
      [] r.t = "star" -> StarEnds(r.r, s, i, ic)

\* parts k.. of a concatenation, starting at i
CatEnds(rs, k, s, i, ic) ==
    IF k > Len(rs) THEN <<i>>
    ELSE EachCat(rs, k + 1, s, MatchEnds(rs[k], s, i, ic), ic)

EachCat(rs, k, s, starts, ic) ==
    IF starts = <<>> THEN <<>>
    ELSE CatEnds(rs, k, s, Head(starts), ic) \o EachCat(rs, k, s, Tail(starts), ic)

\* alternatives k.. of an alternation, leftmost alternative first
AltEnds(rs, k, s, i, ic) ==
    IF k > Len(rs) THEN <<>>
    ELSE MatchEnds(rs[k], s, i, ic) \o AltEnds(rs, k + 1, s, i, ic)

\* greedy repetition: one more iteration is tried before stopping
StarEnds(r, s, i, ic) ==
    EachStar(r, s, SelectSeq(MatchEnds(r, s, i, ic), LAMBDA e : e > i), ic) \o <<i>>

EachStar(r, s, starts, ic) ==
    IF starts = <<>> THEN <<>>
    ELSE StarEnds(r, s, Head(starts), ic) \o EachStar(r, s, Tail(starts), ic)

\* re.finditer: the non-overlapping matches from position pos on, left to
\* right, as records of the first position and the position after the last
RECURSIVE FindIter(_, _, _, _)
FindIter(r, s, pos, ic) ==
    IF pos > Len(s) + 1 THEN <<>>
    ELSE LET ends == MatchEnds(r, s, pos, ic)
         IN IF ends = <<>> THEN FindIter(r, s, pos + 1, ic)
            ELSE <<[start |-> pos, end |-> Head(ends)]>>
                 \o FindIter(r, s, IF Head(ends) > pos THEN Head(ends) ELSE pos + 1, ic)

\* match.group(0)
Group0(s, m) == Slice(s, m.start, m.end - 1)

----------------------------------------------------------------------------
(* The pattern library of extract_references                                *)

Sp == Lit(<<" ">>)

AnySpaces == Plus(Set(Whitespace))

\* (?: \d{4})?
OptYear == Opt(Cat(<<Sp, Rep(Set(Digit), 4)>>))

\* (?:the )?(?:UK )?
OptTheUK == <<Opt(Lit(<<"t","h","e"," ">>)), Opt(Lit(<<"U","K"," ">>))>>

\* [A-Z][a-z]+(?:\s+[A-Z][a-z]+)*
CapWords ==
    Cat(<<Set(Upper), Plus(Set(Lower)),
          Star(Cat(<<AnySpaces, Set(Upper), Plus(Set(Lower))>>))>>)

\* \w+(?:\s+\w+)*
Words == Cat(<<Plus(Set(WordChar)), Star(Cat(<<AnySpaces, Plus(Set(WordChar))>>))>>)

\*  v\.?  followed by a space
Versus == Cat(<<Lit(<<" ","v">>), Opt(Lit(<<".">>)), Sp>>)

legislation_patterns ==
    << Cat(OptTheUK \o <<Lit(<<"I","n","s","o","l","v","e","n","c","y"," ","A","c","t">>), OptYear>>),
       Cat(OptTheUK \o <<Lit(<<"C","o","m","p","a","n","i","e","s"," ","A","c","t">>), OptYear>>),
       Cat(OptTheUK \o <<Lit(<<"E","n","t","e","r","p","r","i","s","e"," ","A","c","t">>), OptYear>>),
       Cat(OptTheUK \o <<Lit(<<"B","a","n","k","r","u","p","t","c","y">>),
                         Opt(Cat(<<Set(Whitespace), Lit(<<"a","n","d">>), Set(Whitespace),
                                   Lit(<<"I","n","s","o","l","v","e","n","c","y">>)>>)),
                         Lit(<<" ","A","c","t">>), OptYear>>),
       Cat(OptTheUK \o <<Lit(<<"C","o","m","p","a","n","y"," ","D","i","r","e","c","t","o","r","s"," ",
                               "D","i","s","q","u","a","l","i","f","i","c","a","t","i","o","n"," ","A","c","t">>),
                         OptYear>>),
       Cat(<<Alt(<<Lit(<<"S","e","c","t","i","o","n">>),
                   Cat(<<Lit(<<"s">>), Opt(Lit(<<".">>))>>),
                   Cat(<<Lit(<<"S","e","c">>), Opt(Lit(<<".">>))>>)>>),
             Sp, Plus(Set(Digit)), Star(Set(Upper \cup Lower)),
             Lit(<<" ","o","f"," ","t","h","e"," ">>),
             Plus(Set(Upper \cup Lower \cup Whitespace)),
             Lit(<<" ","A","c","t">>), OptYear>>) >>

case_patterns ==
    << Cat(<<CapWords, Versus, CapWords>>),
       Cat(<<Lit(<<"R","e"," ">>), Words,
             Opt(Cat(<<AnySpaces, Lit(<<"[">>), Rep(Set(Digit), 4), Lit(<<"]">>)>>)),
             Opt(Cat(<<AnySpaces, Plus(Set(Upper)), AnySpaces, Plus(Set(Digit))>>))>>),
       Cat(<<Lit(<<"R"," ","(">>),
             Opt(Lit(<<"o","n"," ","t","h","e"," ","a","p","p","l","i","c","a","t","i","o","n"," ","o","f"," ">>)),
             Words, Lit(<<")">>), Versus, Words>>) >>

form_patterns ==
    << Cat(<<Lit(<<"F","o","r","m">>), AnySpaces, Plus(Set(Digit \cup {"."})),
             Opt(Cat(<<Lit(<<" ","(">>), Plus(Set(Upper \cup Lower)), Lit(<<")">>)>>))>>),
       Cat(<<Opt(Lit(<<"O","f","f","i","c","i","a","l"," ">>)),
             Lit(<<"R","e","c","e","i","v","e","r"," ","F","o","r","m"," ">>),
             Plus(Set(Digit \cup {"."}))>>),
       Cat(<<Alt(<<Lit(<<"N","o","t","i","c","e">>), Lit(<<"S","t","a","t","e","m","e","n","t">>)>>),
             Lit(<<" ","o","f"," ">>), Plus(Set(Upper \cup Lower \cup Whitespace))>>) >>

\* \[\d{4}\]\s+[A-Z]+\s+\d+
citation_pattern ==
    Cat(<<Lit(<<"[">>), Rep(Set(Digit), 4), Lit(<<"]">>),
          AnySpaces, Plus(Set(Upper)), AnySpaces, Plus(Set(Digit))>>)

----------------------------------------------------------------------------
(* extract_references                                                       *)

\* longest preceding fragment that is still taken as a case name
MaxContextLen == 100

\* if item not in list: list.append(item)
AddUnique(list, item) == IF InList(item, list) THEN list ELSE Append(list, item)

\* the "Standardize the legislation name" step
Standardize(legislation) ==
    LET a == IF /\ Contains(<<"i","n","s","o","l","v","e","n","c","y"," ","a","c","t">>,
                            ToLower(legislation))
                /\ ~Contains(<<"1","9","8","6">>, legislation)
             THEN legislation \o <<" ","1","9","8","6">>
             ELSE legislation
    IN IF /\ Contains(<<"c","o","m","p","a","n","i","e","s"," ","a","c","t">>, ToLower(a))
          /\ ~Contains(<<"2","0","0","6">>, a)
       THEN a \o <<" ","2","0","0","6">>
       ELSE a

\* the inner loop with the duplicate check made on the match as found, before
\* its name is standardized
RECURSIVE AddLegislation_CheckFirst(_, _, _)
AddLegislation_CheckFirst(list, text, matches) ==
    IF matches = <<>> THEN list
    ELSE LET legislation == Strip(Group0(text, Head(matches)))
         IN AddLegislation_CheckFirst(
                IF InList(legislation, list) THEN list
                ELSE Append(list, Standardize(legislation)),
                text, Tail(matches))

\* the inner loop over the matches of one legislation pattern
RECURSIVE AddLegislation(_, _, _)
AddLegislation(list, text, matches) ==
    IF matches = <<>> THEN list
    ELSE AddLegislation(AddUnique(list, Standardize(Strip(Group0(text, Head(matches))))),
                        text, Tail(matches))

\* the inner loop over the matches of one case or form pattern
RECURSIVE AddPlain(_, _, _)
AddPlain(list, text, matches) ==
    IF matches = <<>> THEN list
    ELSE AddPlain(AddUnique(list, Strip(Group0(text, Head(matches)))), text, Tail(matches))

\* for pattern in legislation_patterns (from pattern k on)
RECURSIVE ExtractLegislation(_, _, _)
ExtractLegislation(list, text, k) ==
    IF k > Len(legislation_patterns) THEN list
    ELSE ExtractLegislation(
             AddLegislation(list, text, FindIter(legislation_patterns[k], text, 1, TRUE)),
             text, k + 1)

\* for pattern in case_patterns (from pattern k on); case-sensitive
RECURSIVE ExtractCases(_, _, _)
ExtractCases(list, text, k) ==
    IF k > Len(case_patterns) THEN list
    ELSE ExtractCases(AddPlain(list, text, FindIter(case_patterns[k], text, 1, FALSE)),
                      text, k + 1)

\* for pattern in form_patterns (from pattern k on)
RECURSIVE ExtractForms(_, _, _)
ExtractForms(list, text, k) ==
    IF k > Len(form_patterns) THEN list
    ELSE ExtractForms(AddPlain(list, text, FindIter(form_patterns[k], text, 1, TRUE)),
                      text, k + 1)

\* the loop of the fallback with "len(context) <= 100"
RECURSIVE AddCitations_Inclusive(_, _, _)
AddCitations_Inclusive(list, text, matches) ==
    IF matches = <<>> THEN list
    ELSE LET m == Head(matches)
             citation == Strip(Group0(text, m))
             context == Strip(LastDotField(Strip(Slice(text, 1, m.start - 1))))
         IN AddCitations_Inclusive(
                IF context # <<>> /\ Len(context) <= MaxContextLen
                THEN Append(list, context \o <<" ">> \o citation)
                ELSE Append(list, citation),
                text, Tail(matches))

\* the loop over the [YYYY] COURT NUMBER citations of the fallback
RECURSIVE AddCitations(_, _, _)
AddCitations(list, text, matches) ==
    IF matches = <<>> THEN list
    ELSE LET m == Head(matches)
             citation == Strip(Group0(text, m))
             context == Strip(LastDotField(Strip(Slice(text, 1, m.start - 1))))
         IN AddCitations(
                IF context # <<>> /\ Len(context) < MaxContextLen
                THEN Append(list, context \o <<" ">> \o citation)
                ELSE Append(list, citation),
                text, Tail(matches))

\* the bracketed-citation fallback, applied to the cases found so far
FallbackCases(cases, text) ==
    IF cases = <<>> /\ HasChar("[", text) /\ HasChar("]", text)
    THEN AddCitations(cases, text, FindIter(citation_pattern, text, 1, FALSE))
    ELSE cases

extract_references(text) ==
    [legislation |-> ExtractLegislation(<<>>, text, 1),
     cases |-> FallbackCases(ExtractCases(<<>>, text, 1), text),
     forms |-> ExtractForms(<<>>, text, 1)]

----------------------------------------------------------------------------
(* State                                                                    *)

VARIABLES
    \* answer_question and the provider it calls
    api_key,        \* openai.api_key: None or a string
    pc,             \* position of the call: "idle", "loop", "after", "done"
    question_text,  \* argument
    model,          \* argument
    max_retries,    \* argument
    attempt,        \* loop variable of the retry loop
    answer,         \* None or the answer text
    last_error,     \* None or the last retryable error
    create_calls,   \* the calls of openai.ChatCompletion.create, with what each produced
    sleeps,         \* the arguments of time.sleep, in order
    outcome,        \* None, or how the call ended: a returned result or a raised error
    \* extract_references on its own
    text,           \* argument
    refs,           \* None or the returned dictionary
    \* RateLimiter
    debug_mode,     \* config.debug_mode
    per_minute,     \* RateLimiter.per_minute
    per_hour,       \* RateLimiter.per_hour
    per_day,        \* RateLimiter.per_day
    now,            \* time.time(), in seconds
    minute_buckets, \* client id -> TokenBucket
    hour_buckets,   \* client id -> TokenBucket
    day_buckets,    \* client id -> TokenBucket
    last_check,     \* None, or the last check_rate_limit call: its request, the
                    \* consume calls it made with their results, and what it returned
    \* a TokenBucket on its own
    bucket,         \* None or the TokenBucket
    consume_result, \* None, or the last consume call: its cost and what it returned
    admitted,       \* the times of the consume(1) calls that returned True, in order
    \* threads that call consume or check_rate_limit at the same time
    heap,           \* the TokenBucket objects constructed, in order of construction
    heap0,          \* the objects as they were when the threads started
    dicts,          \* window -> (client id -> position of its TokenBucket in heap)
    threads,        \* thread -> its position in the code and its local variables
    \* MetricsCollector (src/src/hoi_insolvencybot/monitoring.py)
    metrics,        \* the fields of the collector
    lock,           \* the thread that holds metrics.lock, 0 when it is free
    callers,        \* thread -> the method of the collector it runs and where it is
    finished,       \* the record_request and record_error calls that have
                    \* returned since creation or the last reset
    samples,        \* the durations passed to record_response_time since
                    \* creation or the last reset, in arrival order
    \* the batch runner main() (src/src/hoi_insolvencybot/__main__.py)
    environ_key,    \* os.environ.get("OPENAI_API_KEY"): None or a string
    input_file,     \* None when data/{mode}_questions.csv does not exist, else
                    \* its question_text column
    main_pc,        \* "idle", "attempt", "record", "exit", "crash" or "saved"
    sys_argv,       \* sys.argv
    printed,        \* what main printed before the loop, in order
    exit_code,      \* None or the argument of sys.exit
    df,             \* the question_text column as read by main
    idx,            \* the row of the loop, counted from 1
    main_attempt,   \* the variable attempt of main's inner loop
    locals,         \* None while r, statutes, cases and forms are unbound,
                    \* else their values
    bot,            \* the lists bot_responses, bot_attempts, bot_statutes,
                    \* bot_cases and bot_forms
    answer_calls,   \* the calls of answer_question made by main, with the row
                    \* of each and what it produced
    \* the /ask route (src/api.py)
    responses       \* the status codes of the responses given so far, in order

botVars == <<api_key, pc, question_text, model, max_retries, attempt, answer,
             last_error, create_calls, sleeps, outcome>>

extractVars == <<text, refs>>

limiterVars == <<debug_mode, per_minute, per_hour, per_day, now, minute_buckets, hour_buckets, day_buckets, last_check>>

bucketVars == <<bucket, consume_result, admitted>>

threadVars == <<heap, heap0, dicts, threads>>

metricsVars == <<metrics, lock, callers, finished, samples>>

batchVars == <<environ_key, input_file, main_pc, sys_argv, printed, exit_code, df, idx, main_attempt,
               locals, bot, answer_calls>>

apiVars == <<responses>>

vars == <<botVars, extractVars, limiterVars, bucketVars, threadVars, metricsVars,
          batchVars, apiVars>>

\* Python's None and a present value, for a variable that may hold None
None == <<>>

Some(v) == <<v>>

----------------------------------------------------------------------------
(* Bounds of the explored inputs                                            *)

\* longest question explored
MaxQuestionLen == 2

\* largest max_retries explored
MaxRetries == 3

\* most fragments joined into one explored text
MaxFragments == 2

\* the smallest ceiling the explored RateLimiters are constructed with
MinCeiling == 2

\* the clock is explored up to this many seconds
MaxTime == 60

\* the largest cost a consume call is explored with
MaxCost == 2

\* the clock of a TokenBucket on its own is explored up to this many seconds
MaxBucketTime == 12

\* the clock is explored up to this many seconds while threads run
MaxRaceTime == 15

\* the calls of the collector each thread makes
MaxCalls == 2

\* the clock of the collector is explored up to this many seconds
MaxMetricsTime == 3660

\* the record_response_time calls explored on an empty window and on a full one
MaxSamples == 4

\* max_retries is explored down to minus this where the claim is about
\* max_retries <= 0
MaxNegativeRetries == 1

\* the most requests sent to the /ask route
MaxRequests == 3

\* the most command line arguments main is started with
MaxArgs == 3

\* the most rows of the input file explored
MaxRows == 2

----------------------------------------------------------------------------
(* Texts                                                                    *)

\* pieces of legal prose the explored texts are made of
Fragments ==
    { <<"t","h","e"," ","I","n","s","o","l","v","e","n","c","y"," ","A","c","t">>,
      <<" ","1","9","8","6",".">>,
      <<" ","i","n","s","o","l","v","e","n","c","y"," ","a","c","t",".">>,
      <<" ","S","m","i","t","h"," ","v"," ","J","o","n","e","s",".">>,
      <<" ","S","e","e"," ","[","2","0","0","1","]"," ","U","K","H","L"," ","1",".">>,
      <<" ","R","e"," ","F","o","o">>,
      <<" ","F","o","r","m"," ","4",".","1","9">> }

\* further mentions, explored on their own and between two fragments
Mentions ==
    { <<" ","C","o","m","p","a","n","i","e","s"," ","A","c","t">>,
      <<" ","C","o","m","p","a","n","i","e","s"," ","A","c","t"," ","2","0","0","0",".">>,
      <<" ","t","h","e"," ","I","n","s","o","l","v","e","n","c","y"," ","A","c","t"," ","2","0","0","0",".">>,
      <<" ","t","h","e"," ","I","n","s","o","l","v","e","n","c","y"," ","A","c","t"," ","1","9","8","6",".">>,
      <<" ","S","a","l","o","m","o","n"," ","v"," ","A"," ","S","a","l","o","m","o","n"," ","&"," ","C","o"," ","L","t","d">>,
      <<" ","R","e"," ","B","a","r",".">> }

\* the texts made of exactly n fragments
RECURSIVE TextsOf(_)
TextsOf(n) ==
    IF n = 0 THEN {<<>>}
    ELSE {t \o f : t \in TextsOf(n - 1), f \in Fragments}

\* the texts made of at most n fragments
TextsUpTo(n) == UNION {TextsOf(k) : k \in 0..n}

\* the questions explored: blanks and question marks, up to MaxQuestionLen
\* characters
RECURSIVE QuestionsOf(_)
QuestionsOf(n) ==
    IF n = 0 THEN {<<>>}
    ELSE {q \o <<c>> : q \in QuestionsOf(n - 1), c \in {" ", "?"}}

Questions == UNION {QuestionsOf(k) : k \in 0..MaxQuestionLen}

----------------------------------------------------------------------------
(* answer_question                                                          *)

supported_models == {"gpt-3.5-turbo", "gpt-4", "gpt-4o"}

\* the model identifiers explored: the supported ones and one that is not
Models == supported_models \cup {"gpt-5"}

\* temperature=0.7, in tenths
Temperature == 7

\* max_tokens=1200
MaxTokens == 1200

\* the prompt template up to the place of the question
PromptHead ==
    <<"\n","Y","o","u"," ","a","r","e"," ","a","n"," ","e","x","p","e","r",
      "t"," ","i","n","s","o","l","v","e","n","c","y"," ","l","a","w"," ",
      "a","s","s","i","s","t","a","n","t","."," ","G","i","v","e","n"," ",
      "t","h","i","s"," ","l","e","g","a","l"," ","s","c","e","n","a","r",
      "i","o",","," ","p","r","o","v","i","d","e"," ","y","o","u","r"," ",
      "a","d","v","i","c","e"," ","i","n"," ","p","l","a","i","n"," ","E",
      "n","g","l","i","s","h","."," ","I","n","c","l","u","d","e"," ","r",
      "e","f","e","r","e","n","c","e","s"," ","t","o"," ","U","K"," ","s",
      "t","a","t","u","t","e","s",","," ","l","e","g","a","l"," ","c","a",
      "s","e","s",","," ","a","n","d"," ","a","n","y"," ","o","f","f","i",
      "c","i","a","l"," ","f","o","r","m","s"," ","i","f"," ","a","p","p",
      "l","i","c","a","b","l","e",".","\n","\n","Q","u","e","s","t","i","o",
      "n",":"," ">>

\* the system message
SystemPrompt ==
    <<"Y","o","u"," ","a","r","e"," ","a","n"," ","e","x","p","e","r","t",
      " ","i","n"," ","U","K"," ","i","n","s","o","l","v","e","n","c","y",
      " ","l","a","w",".">>

\* Prompt without the question embedded
Prompt_NoQuestion(q) == PromptHead \o <<"\n">>

\* the f-string: the template with the question embedded
Prompt(q) == PromptHead \o q \o <<"\n">>

\* the messages argument of the provider call
Messages(q) ==
    << [role |-> "system", content |-> SystemPrompt],
       [role |-> "user", content |-> Strip(Prompt(q))] >>

\* RetryableErrors for an except clause that names every provider exception
RetryableErrors_All ==
    {"RateLimitError", "APIError", "ServiceUnavailableError", "APIConnectionError",
     "InvalidRequestError", "AuthenticationError", "Timeout"}

\* the exception classes named by the first except clause
RetryableErrors ==
    {"RateLimitError", "APIError", "ServiceUnavailableError", "APIConnectionError"}

\* exception classes the provider call raises besides those
OtherErrors == {"InvalidRequestError", "AuthenticationError", "Timeout"}

\* str(e) of a provider exception
ErrText(cls) ==
    CASE cls = "RateLimitError" -> "Rate limit reached"
      [] cls = "APIError" -> "Internal server error"
      [] cls = "ServiceUnavailableError" -> "The server is overloaded"
      [] cls = "APIConnectionError" -> "Error communicating with OpenAI"
      [] cls = "InvalidRequestError" -> "Invalid request"
      [] cls = "AuthenticationError" -> "Incorrect API key provided"
      [] cls = "Timeout" -> "Request timed out"
      [] cls = "KeyError" -> "'choices'"

\* the answer texts explored: an empty one, one citing a statute, one citing
\* a case
AnswerTexts ==
    { <<>>,
      <<"I","n","s","o","l","v","e","n","c","y"," ","A","c","t">>,
      <<"R","e"," ","F","o","o">> }

\* what one call of openai.ChatCompletion.create can produce: a response with
\* a content, a response whose content is None, a response without the
\* expected keys, or an exception
ProviderResults ==
    {[kind |-> "content", content |-> t, cls |-> ""] : t \in AnswerTexts}
    \cup {[kind |-> "null", content |-> <<>>, cls |-> ""],
          [kind |-> "malformed", content |-> <<>>, cls |-> "KeyError"]}
    \cup {[kind |-> "error", content |-> <<>>, cls |-> c] : c \in RetryableErrors \cup OtherErrors}

\* RaisedClass for a response whose keys are read after the try block: a
\* malformed response raises nothing inside it
RaisedClass_ErrorsOnly(res) ==
    IF res.kind = "error" THEN res.cls ELSE ""

\* the exception class that leaves the try block, "" when none does:
\* response['choices'][0]['message']['content'] raises on a malformed response
RaisedClass(res) ==
    IF res.kind \in {"error", "malformed"} THEN res.cls ELSE ""

\* str(last_error)
LastErrorStr(err) == IF err = None THEN "None" ELSE ErrText(err[1])

\* LoopPc for range(max_retries - 1): one attempt short
LoopPc_OneShort(next, retries) == IF next + 1 < retries THEN "loop" ELSE "after"

\* LoopPc for range(max_retries + 1): one attempt more
LoopPc_OneMore(next, retries) == IF next <= retries THEN "loop" ELSE "after"

\* LoopPc for a loop that tests after its body: the first attempt is always made
LoopPc_TestAfter(next, retries) == IF next = 0 \/ next < retries THEN "loop" ELSE "after"

\* the loop continues with the next value of range(max_retries), or is over
LoopPc(next, retries) == IF next < retries THEN "loop" ELSE "after"

\* Pow2 for a one-based attempt number: 2 ** (attempt + 1)
RECURSIVE Pow2_OneBased(_)
Pow2_OneBased(n) == IF n = 0 THEN 2 ELSE 2 * Pow2_OneBased(n - 1)

\* 2 ** attempt
RECURSIVE Pow2(_)
Pow2(n) == IF n = 0 THEN 1 ELSE 2 * Pow2(n - 1)

\* IsBlank without the strip: only the empty question is rejected
IsBlank_EmptyOnly(q) == q = <<>>

\* not question_text or not question_text.strip()
IsBlank(q) == q = <<>> \/ Strip(q) = <<>>

\* what os.getenv("OPENAI_API_KEY") can have given: nothing, an empty string,
\* a key
ApiKeys == {None, Some(<<>>), Some(<<"s","k","-","1">>)}

\* CredentialMissing as "openai.api_key is None": an empty key passes
CredentialMissing_NoneOnly(key) == key = None

\* not openai.api_key
CredentialMissing(key) == key = None \/ key[1] = <<>>

\* the call of answer_question up to the retry loop: validation of the
\* arguments, then the credential check
Call(q, m, r) ==
    /\ pc = "idle"
    /\ question_text' = q
    /\ model' = m
    /\ max_retries' = r
    /\ attempt' = 0
    /\ answer' = None
    /\ last_error' = None
    /\ create_calls' = <<>>
    /\ sleeps' = <<>>
    /\ IF m \notin supported_models
       THEN /\ outcome' = Some([kind |-> "raise", type |-> "ValueError",
                                format |-> "Model {model} not supported. Use one of: {supported_models}",
                                detail |-> m])
            /\ pc' = "done"
       ELSE IF IsBlank(q)
       THEN /\ outcome' = Some([kind |-> "raise", type |-> "ValueError",
                                format |-> "Question text cannot be empty",
                                detail |-> ""])
            /\ pc' = "done"
       ELSE IF CredentialMissing(api_key)
       THEN /\ outcome' = Some([kind |-> "raise", type |-> "EnvironmentError",
                                format |-> "OPENAI_API_KEY environment variable is not set",
                                detail |-> ""])
            /\ pc' = "done"
       ELSE /\ outcome' = None
            /\ pc' = LoopPc(0, r)
    /\ UNCHANGED api_key

\* Attempt with the backoff skipped after the failure of the last attempt
Attempt_NoFinalSleep(res) ==
    /\ pc = "loop"
    /\ create_calls' = Append(create_calls,
                              [model |-> model, messages |-> Messages(question_text),
                               temperature |-> Temperature, max_tokens |-> MaxTokens,
                               result |-> res])
    /\ IF RaisedClass(res) = ""
       THEN \* answer = response[...]['content']; break
            /\ answer' = IF res.kind = "content" THEN Some(res.content) ELSE None
            /\ pc' = "after"
            /\ UNCHANGED <<attempt, last_error, sleeps, outcome>>
       ELSE IF RaisedClass(res) \in RetryableErrors
       THEN \* last_error = e; time.sleep(2 ** attempt)
            /\ last_error' = Some(res.cls)
            /\ sleeps' = IF attempt + 1 < max_retries
                          THEN Append(sleeps, Pow2(attempt)) ELSE sleeps
            /\ attempt' = attempt + 1
            /\ pc' = LoopPc(attempt + 1, max_retries)
            /\ UNCHANGED <<answer, outcome>>
       ELSE \* raise RuntimeError(f"Error calling OpenAI API: {str(e)}")
            /\ outcome' = Some([kind |-> "raise", type |-> "RuntimeError",
                                format |-> "Error calling OpenAI API: {e}",
                                detail |-> ErrText(RaisedClass(res))])
            /\ pc' = "done"
            /\ UNCHANGED <<attempt, answer, last_error, sleeps>>
    /\ UNCHANGED <<api_key, question_text, model, max_retries>>

\* one iteration of the retry loop: the provider call and the handling of
\* what it produced
Attempt(res) ==
    /\ pc = "loop"
    /\ create_calls' = Append(create_calls,
                              [model |-> model, messages |-> Messages(question_text),
                               temperature |-> Temperature, max_tokens |-> MaxTokens,
                               result |-> res])
    /\ IF RaisedClass(res) = ""
       THEN \* answer = response[...]['content']; break
            /\ answer' = IF res.kind = "content" THEN Some(res.content) ELSE None
            /\ pc' = "after"
            /\ UNCHANGED <<attempt, last_error, sleeps, outcome>>
       ELSE IF RaisedClass(res) \in RetryableErrors
       THEN \* last_error = e; time.sleep(2 ** attempt)
            /\ last_error' = Some(res.cls)
            /\ sleeps' = Append(sleeps, Pow2(attempt))
            /\ attempt' = attempt + 1
            /\ pc' = LoopPc(attempt + 1, max_retries)
            /\ UNCHANGED <<answer, outcome>>
       ELSE \* raise RuntimeError(f"Error calling OpenAI API: {str(e)}")
            /\ outcome' = Some([kind |-> "raise", type |-> "RuntimeError",
                                format |-> "Error calling OpenAI API: {e}",
                                detail |-> ErrText(RaisedClass(res))])
            /\ pc' = "done"
            /\ UNCHANGED <<attempt, answer, last_error, sleeps>>
    /\ UNCHANGED <<api_key, question_text, model, max_retries>>

\* after the loop: the failure of all attempts, or the extraction of the
\* references and the structured result
Finish ==
    /\ pc = "after"
    /\ IF answer = None
       THEN outcome' = Some([kind |-> "raise", type |-> "RuntimeError",
                             format |-> "Failed to get response after {max_retries} attempts. Last error: {last_error}",
                             detail |-> LastErrorStr(last_error)])
       ELSE LET extracted == extract_references(answer[1])
            IN outcome' = Some([kind |-> "return",
                                value |-> [_response |-> answer[1],
                                           legislation |-> extracted.legislation,
                                           cases |-> extracted.cases,
                                           forms |-> extracted.forms]])
    /\ pc' = "done"
    /\ UNCHANGED <<api_key, question_text, model, max_retries, attempt, answer,
                   last_error, create_calls, sleeps>>

BotInit ==
    /\ api_key \in ApiKeys
    /\ pc = "idle"
    /\ question_text = <<>>
    /\ model = "gpt-3.5-turbo"
    /\ max_retries = 3
    /\ attempt = 0
    /\ answer = None
    /\ last_error = None
    /\ create_calls = <<>>
    /\ sleeps = <<>>
    /\ outcome = None

BotNext ==
    \/ \E q \in Questions, m \in Models, r \in 0..MaxRetries : Call(q, m, r)
    \/ \E res \in ProviderResults : Attempt(res)
    \/ Finish

\* the calls with max_retries of one or less, negative values included
FewRetriesNext ==
    \/ \E q \in Questions, m \in Models, r \in (0 - MaxNegativeRetries)..1 : Call(q, m, r)
    \/ \E res \in ProviderResults : Attempt(res)
    \/ Finish

----------------------------------------------------------------------------
(* extract_references applied to a text                                     *)

\* a mention between two texts of at most one fragment
MentionTexts ==
    {before \o mention \o after :
        before \in TextsUpTo(1), mention \in Mentions, after \in TextsUpTo(1)}

\* a citation after a sentence of one character less than MaxContextLen, and
\* after one of MaxContextLen characters
LongTexts ==
    {[i \in 1..n |-> "a"] \o <<" ","[","2","0","0","1","]"," ","U","K","H","L"," ","1",".">> :
        n \in {MaxContextLen - 1, MaxContextLen}}

ExtractInit ==
    /\ text \in TextsUpTo(MaxFragments) \cup MentionTexts \cup LongTexts
    /\ refs = None

ExtractIdle ==
    /\ text = <<>>
    /\ refs = None

Extract ==
    /\ refs = None
    /\ refs' = Some(extract_references(text))
    /\ UNCHANGED text

----------------------------------------------------------------------------
(* TokenBucket                                                              *)
(* Token counts are kept in units of 1/TokenUnit of a token, so that the   *)
(* refill elapsed / refill_time is exact for a clock in whole seconds.     *)

TokenUnit == 86400

Min(a, b) == IF a <= b THEN a ELSE b

\* TokenBucket(tokens, refill_time) created at time t, with
\* refill_time = window / tokens seconds
TokenBucket(tokens, window, t) ==
    [tokens |-> tokens * TokenUnit,
     max_tokens |-> tokens * TokenUnit,
     refill_window |-> window,
     refill_count |-> tokens,
     last_check |-> t]

\* a refill of one token for every second elapsed, whatever refill_time is
Refill_PerSecond(b, elapsed) == elapsed * TokenUnit

\* elapsed / self.refill_time, in token units
Refill(b, elapsed) == (elapsed * b.refill_count * TokenUnit) \div b.refill_window

\* Consume with "self.tokens > tokens": the last whole token is never given out
Consume_Strict(b, t, tokens) ==
    LET refilled == Min(b.max_tokens, b.tokens + Refill(b, t - b.last_check))
    IN IF refilled > tokens * TokenUnit
       THEN [bucket |-> [b EXCEPT !.tokens = refilled - tokens * TokenUnit,
                                  !.last_check = t],
             ok |-> TRUE]
       ELSE [bucket |-> [b EXCEPT !.tokens = refilled, !.last_check = t],
             ok |-> FALSE]

\* Consume that stores the refill and the time only when it admits
Consume_StoreOnAdmit(b, t, tokens) ==
    LET refilled == Min(b.max_tokens, b.tokens + Refill(b, t - b.last_check))
    IN IF refilled >= tokens * TokenUnit
       THEN [bucket |-> [b EXCEPT !.tokens = refilled - tokens * TokenUnit,
                                  !.last_check = t],
             ok |-> TRUE]
       ELSE [bucket |-> b, ok |-> FALSE]

\* Consume without the cap min(self.max_tokens, ...)
Consume_NoCap(b, t, tokens) ==
    LET refilled == b.tokens + Refill(b, t - b.last_check)
    IN IF refilled >= tokens * TokenUnit
       THEN [bucket |-> [b EXCEPT !.tokens = refilled - tokens * TokenUnit,
                                  !.last_check = t],
             ok |-> TRUE]
       ELSE [bucket |-> [b EXCEPT !.tokens = refilled, !.last_check = t],
             ok |-> FALSE]

\* TokenBucket.consume(tokens) at time t: the bucket afterwards and the
\* returned flag
Consume(b, t, tokens) ==
    LET refilled == Min(b.max_tokens, b.tokens + Refill(b, t - b.last_check))
    IN IF refilled >= tokens * TokenUnit
       THEN [bucket |-> [b EXCEPT !.tokens = refilled - tokens * TokenUnit,
                                  !.last_check = t],
             ok |-> TRUE]
       ELSE [bucket |-> [b EXCEPT !.tokens = refilled, !.last_check = t],
             ok |-> FALSE]

\* the (tokens, seconds in which the bucket refills from empty) explored; the
\* first refills one token in 6 seconds, the second one in 30 seconds
BucketShapes == {<<10, 60>>, <<2, 60>>}

\* TokenBucket.__init__ at time 0
BucketInit ==
    /\ \E shape \in BucketShapes : bucket = Some(TokenBucket(shape[1], shape[2], 0))
    /\ consume_result = None
    /\ admitted = <<>>

BucketIdle ==
    /\ bucket = None
    /\ consume_result = None
    /\ admitted = <<>>

\* bucket.consume(cost)
BucketConsume(cost) ==
    LET call == Consume(bucket[1], now, cost)
    IN /\ bucket # None
       /\ bucket' = Some(call.bucket)
       /\ consume_result' = Some([cost |-> cost, ok |-> call.ok])
       /\ admitted' = IF call.ok /\ cost = 1 THEN Append(admitted, now) ELSE admitted
       /\ UNCHANGED limiterVars

\* the steps of the clock explored for a TokenBucket on its own, in seconds
BucketTickSteps == {3}

\* the clock moves on
BucketTick(d) ==
    /\ now + d <= MaxBucketTime
    /\ now' = now + d
    /\ UNCHANGED <<debug_mode, per_minute, per_hour, per_day, minute_buckets, hour_buckets, day_buckets, last_check>>
    /\ UNCHANGED bucketVars

BucketNext ==
    \/ \E cost \in 1..MaxCost : BucketConsume(cost)
    \/ \E d \in BucketTickSteps : BucketTick(d)

----------------------------------------------------------------------------
(* RateLimiter                                                              *)

\* hosts for which debug mode skips the limiter
LocalHosts == {"127.0.0.1", "localhost"}

\* the requests explored: an api-key header ("" when absent), the entries of
\* an X-Forwarded-For header (none when absent) and the connection's address
Requests ==
    { [api_key |-> "key-1", forwarded |-> <<>>, host |-> "10.0.0.1"],
      [api_key |-> "key-1", forwarded |-> <<>>, host |-> "127.0.0.1"],
      [api_key |-> "", forwarded |-> <<"10.0.0.1", "10.0.0.9">>, host |-> "127.0.0.1"],
      [api_key |-> "", forwarded |-> <<>>, host |-> "10.0.0.1"] }

\* RateLimiter._get_client_id
get_client_id(request) ==
    IF request.api_key # "" THEN <<"sha256", request.api_key>>
    ELSE IF request.forwarded # <<>> THEN <<request.forwarded[1]>>
    ELSE <<request.host>>

\* the bucket of a client in a dictionary, created when absent
BucketOf(buckets, client_id, tokens, window, t) ==
    IF client_id \in DOMAIN buckets THEN buckets[client_id]
    ELSE TokenBucket(tokens, window, t)

\* a store that makes a new dictionary of the one entry
Store_OnlyEntry(buckets, client_id, b) ==
    [c \in {client_id} |-> b]

\* buckets[client_id] = bucket
Store(buckets, client_id, b) ==
    [c \in DOMAIN buckets \cup {client_id} |->
        IF c = client_id THEN b ELSE buckets[c]]

\* check_rate_limit that gives the tokens already taken back when a later
\* bucket denies
check_rate_limit_refund(request) ==
    LET client_id == get_client_id(request)
        minute == Consume(BucketOf(minute_buckets, client_id, per_minute, 60, now), now, 1)
        hour == Consume(BucketOf(hour_buckets, client_id, per_hour, 3600, now), now, 1)
        day == Consume(BucketOf(day_buckets, client_id, per_day, 86400, now), now, 1)
        Refund(b) == [b EXCEPT !.tokens = @ + TokenUnit]
        Returned(consumed, result) ==
            Some([request |-> request, client_id |-> client_id,
                  consumed |-> consumed, result |-> result])
    IN IF debug_mode /\ request.host \in LocalHosts
       THEN /\ last_check' = Returned(<<>>, TRUE)
            /\ UNCHANGED <<minute_buckets, hour_buckets, day_buckets>>
       ELSE IF ~minute.ok
       THEN /\ minute_buckets' = Store(minute_buckets, client_id, minute.bucket)
            /\ last_check' = Returned(<<[window |-> "minute", ok |-> FALSE]>>, FALSE)
            /\ UNCHANGED <<hour_buckets, day_buckets>>
       ELSE IF ~hour.ok
       THEN /\ minute_buckets' = Store(minute_buckets, client_id, Refund(minute.bucket))
            /\ hour_buckets' = Store(hour_buckets, client_id, hour.bucket)
            /\ last_check' = Returned(<<[window |-> "minute", ok |-> TRUE],
                                        [window |-> "hour", ok |-> FALSE]>>, FALSE)
            /\ UNCHANGED day_buckets
       ELSE IF ~day.ok
       THEN /\ minute_buckets' = Store(minute_buckets, client_id, Refund(minute.bucket))
            /\ hour_buckets' = Store(hour_buckets, client_id, Refund(hour.bucket))
            /\ day_buckets' = Store(day_buckets, client_id, day.bucket)
            /\ last_check' = Returned(<<[window |-> "minute", ok |-> TRUE],
                                        [window |-> "hour", ok |-> TRUE],
                                        [window |-> "day", ok |-> FALSE]>>, FALSE)
       ELSE /\ minute_buckets' = Store(minute_buckets, client_id, minute.bucket)
            /\ hour_buckets' = Store(hour_buckets, client_id, hour.bucket)
            /\ day_buckets' = Store(day_buckets, client_id, day.bucket)
            /\ last_check' = Returned(<<[window |-> "minute", ok |-> TRUE],
                                        [window |-> "hour", ok |-> TRUE],
                                        [window |-> "day", ok |-> TRUE]>>, TRUE)

\* check_rate_limit that charges the three buckets first and combines the
\* three answers afterwards
check_rate_limit_eager(request) ==
    LET client_id == get_client_id(request)
        minute == Consume(BucketOf(minute_buckets, client_id, per_minute, 60, now), now, 1)
        hour == Consume(BucketOf(hour_buckets, client_id, per_hour, 3600, now), now, 1)
        day == Consume(BucketOf(day_buckets, client_id, per_day, 86400, now), now, 1)
    IN IF debug_mode /\ request.host \in LocalHosts
       THEN /\ last_check' = Some([request |-> request, client_id |-> client_id,
                                   consumed |-> <<>>, result |-> TRUE])
            /\ UNCHANGED <<minute_buckets, hour_buckets, day_buckets>>
       ELSE /\ minute_buckets' = Store(minute_buckets, client_id, minute.bucket)
            /\ hour_buckets' = Store(hour_buckets, client_id, hour.bucket)
            /\ day_buckets' = Store(day_buckets, client_id, day.bucket)
            /\ last_check' = Some([request |-> request, client_id |-> client_id,
                                   consumed |-> <<[window |-> "minute", ok |-> minute.ok],
                                                 [window |-> "hour", ok |-> hour.ok],
                                                 [window |-> "day", ok |-> day.ok]>>,
                                   result |-> minute.ok /\ hour.ok /\ day.ok])

\* RateLimiter.check_rate_limit(request)
check_rate_limit(request) ==
    LET client_id == get_client_id(request)
        minute == Consume(BucketOf(minute_buckets, client_id, per_minute, 60, now), now, 1)
        hour == Consume(BucketOf(hour_buckets, client_id, per_hour, 3600, now), now, 1)
        day == Consume(BucketOf(day_buckets, client_id, per_day, 86400, now), now, 1)
        Returned(consumed, result) ==
            Some([request |-> request, client_id |-> client_id,
                  consumed |-> consumed, result |-> result])
    IN IF debug_mode /\ request.host \in LocalHosts
       THEN /\ last_check' = Returned(<<>>, TRUE)
            /\ UNCHANGED <<minute_buckets, hour_buckets, day_buckets>>
       ELSE /\ minute_buckets' = Store(minute_buckets, client_id, minute.bucket)
            /\ IF ~minute.ok
               THEN /\ last_check' = Returned(<<[window |-> "minute", ok |-> FALSE]>>, FALSE)
                    /\ UNCHANGED <<hour_buckets, day_buckets>>
               ELSE /\ hour_buckets' = Store(hour_buckets, client_id, hour.bucket)
                    /\ IF ~hour.ok
                       THEN /\ last_check' = Returned(<<[window |-> "minute", ok |-> TRUE],
                                                        [window |-> "hour", ok |-> FALSE]>>, FALSE)
                            /\ UNCHANGED day_buckets
                       ELSE /\ day_buckets' = Store(day_buckets, client_id, day.bucket)
                            /\ last_check' = Returned(<<[window |-> "minute", ok |-> TRUE],
                                                        [window |-> "hour", ok |-> TRUE],
                                                        [window |-> "day", ok |-> day.ok]>>, day.ok)

CheckRateLimit(request) ==
    /\ check_rate_limit(request)
    /\ UNCHANGED <<debug_mode, per_minute, per_hour, per_day, now>>

\* the clock moves on
Tick(d) ==
    /\ now + d <= MaxTime
    /\ now' = now + d
    /\ UNCHANGED <<debug_mode, per_minute, per_hour, per_day, minute_buckets, hour_buckets, day_buckets, last_check>>

\* the steps of the clock explored, in seconds
TickSteps == {30}

\* the (requests_per_minute, requests_per_hour, requests_per_day) explored:
\* one where the hour ceiling is reached before the day ceiling, one where
\* the day ceiling is reached first
Ceilings ==
    { <<MinCeiling, MinCeiling + 1, MinCeiling + 2>>,
      <<MinCeiling, MinCeiling + 2, MinCeiling + 1>> }

\* RateLimiter.__init__
LimiterInit ==
    /\ debug_mode \in BOOLEAN
    /\ \E c \in Ceilings :
          /\ per_minute = c[1]
          /\ per_hour = c[2]
          /\ per_day = c[3]
    /\ now = 0
    /\ minute_buckets = <<>>
    /\ hour_buckets = <<>>
    /\ day_buckets = <<>>
    /\ last_check = None

LimiterIdle ==
    /\ LimiterInit
    /\ ~debug_mode
    /\ per_hour < per_day

LimiterNext ==
    \/ \E request \in Requests : CheckRateLimit(request)
    \/ \E d \in TickSteps : Tick(d)

----------------------------------------------------------------------------
(* consume and check_rate_limit called from two threads                     *)
(* A thread runs the statements of the two methods one at a time; an       *)
(* assignment that reads a field and writes it back is a read step and a   *)
(* write step, and the other thread may run between any two steps.         *)

Threads == {1, 2}

Windows == <<"minute", "hour", "day">>

\* the seconds of a window: 60.0, 3600.0, 86400.0
WindowSeconds(w) ==
    IF w = "minute" THEN 60 ELSE IF w = "hour" THEN 3600 ELSE 86400

\* self.per_minute, self.per_hour, self.per_day
Ceiling(w) ==
    IF w = "minute" THEN per_minute ELSE IF w = "hour" THEN per_hour ELSE per_day

\* a thread that has not been started
NoThread ==
    [pc |-> "none", caller |-> "", request |-> None, client_id |-> None,
     window |-> "", self |-> 0, now |-> 0, elapsed |-> 0, value |-> 0,
     ok |-> FALSE, result |-> None]

\* a thread about to run bucket.consume() on the object at position i
ConsumeThread(i) ==
    [NoThread EXCEPT !.pc = "consume_now", !.caller = "consume", !.self = i]

\* a thread about to run limiter.check_rate_limit(request)
LimiterThread(request) ==
    [NoThread EXCEPT !.pc = "bypass", !.caller = "check_rate_limit",
                     !.request = Some(request)]

\* thread t goes on with the local variables changed to th
Go(t, th) == threads' = [threads EXCEPT ![t] = th]

\* check_rate_limit: the debug-mode bypass
ThreadBypass(t) ==
    LET th == threads[t]
    IN /\ th.pc = "bypass"
       /\ IF debug_mode /\ th.request[1].host \in LocalHosts
          THEN Go(t, [th EXCEPT !.pc = "done", !.result = Some(TRUE)])
          ELSE Go(t, [th EXCEPT !.pc = "client_id"])
       /\ UNCHANGED <<heap, heap0, dicts>>

\* check_rate_limit: client_id = self._get_client_id(request)
ThreadClientId(t) ==
    LET th == threads[t]
    IN /\ th.pc = "client_id"
       /\ Go(t, [th EXCEPT !.pc = "check", !.window = "minute",
                           !.client_id = Some(get_client_id(th.request[1]))])
       /\ UNCHANGED <<heap, heap0, dicts>>

\* check_rate_limit: if client_id not in self.<window>_buckets
ThreadCheck(t) ==
    LET th == threads[t]
    IN /\ th.pc = "check"
       /\ IF th.client_id[1] \in DOMAIN dicts[th.window]
          THEN Go(t, [th EXCEPT !.pc = "lookup"])
          ELSE Go(t, [th EXCEPT !.pc = "create"])
       /\ UNCHANGED <<heap, heap0, dicts>>

\* check_rate_limit: self.<window>_buckets[client_id] = TokenBucket(...)
ThreadCreate(t) ==
    LET th == threads[t]
        w == th.window
    IN /\ th.pc = "create"
       /\ heap' = Append(heap, TokenBucket(Ceiling(w), WindowSeconds(w), now))
       /\ dicts' = [dicts EXCEPT ![w] = Store(@, th.client_id[1], Len(heap) + 1)]
       /\ Go(t, [th EXCEPT !.pc = "lookup"])
       /\ UNCHANGED heap0

\* check_rate_limit: self.<window>_buckets[client_id], the receiver of consume()
ThreadLookup(t) ==
    LET th == threads[t]
    IN /\ th.pc = "lookup"
       /\ Go(t, [th EXCEPT !.pc = "consume_now",
                           !.self = dicts[th.window][th.client_id[1]]])
       /\ UNCHANGED <<heap, heap0, dicts>>

\* consume: now = time.time()
ThreadNow(t) ==
    LET th == threads[t]
    IN /\ th.pc = "consume_now"
       /\ Go(t, [th EXCEPT !.pc = "consume_elapsed", !.now = now])
       /\ UNCHANGED <<heap, heap0, dicts>>

\* consume: elapsed = now - self.last_check
ThreadElapsed(t) ==
    LET th == threads[t]
    IN /\ th.pc = "consume_elapsed"
       /\ Go(t, [th EXCEPT !.pc = "refill_read",
                           !.elapsed = th.now - heap[th.self].last_check])
       /\ UNCHANGED <<heap, heap0, dicts>>

\* consume: min(self.max_tokens, self.tokens + elapsed / self.refill_time)
ThreadRefillRead(t) ==
    LET th == threads[t]
        b == heap[th.self]
    IN /\ th.pc = "refill_read"
       /\ Go(t, [th EXCEPT !.pc = "refill_write",
                           !.value = Min(b.max_tokens, b.tokens + Refill(b, th.elapsed))])
       /\ UNCHANGED <<heap, heap0, dicts>>

\* consume: self.tokens = <the value computed>
ThreadRefillWrite(t) ==
    LET th == threads[t]
    IN /\ th.pc = "refill_write"
       /\ heap' = [heap EXCEPT ![th.self].tokens = th.value]
       /\ Go(t, [th EXCEPT !.pc = "stamp"])
       /\ UNCHANGED <<heap0, dicts>>

\* consume: self.last_check = now
ThreadStamp(t) ==
    LET th == threads[t]
    IN /\ th.pc = "stamp"
       /\ heap' = [heap EXCEPT ![th.self].last_check = th.now]
       /\ Go(t, [th EXCEPT !.pc = "test"])
       /\ UNCHANGED <<heap0, dicts>>

\* consume: if self.tokens >= tokens ... return False
ThreadTest(t) ==
    LET th == threads[t]
    IN /\ th.pc = "test"
       /\ IF heap[th.self].tokens >= TokenUnit
          THEN Go(t, [th EXCEPT !.pc = "debit_read"])
          ELSE Go(t, [th EXCEPT !.pc = "consumed", !.ok = FALSE])
       /\ UNCHANGED <<heap, heap0, dicts>>

\* consume: self.tokens - tokens, the right-hand side of self.tokens -= tokens
ThreadDebitRead(t) ==
    LET th == threads[t]
    IN /\ th.pc = "debit_read"
       /\ Go(t, [th EXCEPT !.pc = "debit_write",
                           !.value = heap[th.self].tokens - TokenUnit])
       /\ UNCHANGED <<heap, heap0, dicts>>

\* consume: the store of self.tokens -= tokens, and return True
ThreadDebitWrite(t) ==
    LET th == threads[t]
    IN /\ th.pc = "debit_write"
       /\ heap' = [heap EXCEPT ![th.self].tokens = th.value]
       /\ Go(t, [th EXCEPT !.pc = "consumed", !.ok = TRUE])
       /\ UNCHANGED <<heap0, dicts>>

\* what the caller does with the value consume returned: a thread that
\* called consume itself is done; check_rate_limit returns False when the
\* bucket denied, goes on to the next window, or returns what the day bucket
\* said
ThreadConsumed(t) ==
    LET th == threads[t]
    IN /\ th.pc = "consumed"
       /\ IF th.caller = "consume" \/ ~th.ok \/ th.window = "day"
          THEN Go(t, [th EXCEPT !.pc = "done", !.result = Some(th.ok)])
          ELSE Go(t, [th EXCEPT !.pc = "check",
                               !.window = IF th.window = "minute" THEN "hour" ELSE "day"])
       /\ UNCHANGED <<heap, heap0, dicts>>

\* one statement of thread t
ThreadStep(t) ==
    \/ ThreadBypass(t)
    \/ ThreadClientId(t)
    \/ ThreadCheck(t)
    \/ ThreadCreate(t)
    \/ ThreadLookup(t)
    \/ ThreadNow(t)
    \/ ThreadElapsed(t)
    \/ ThreadRefillRead(t)
    \/ ThreadRefillWrite(t)
    \/ ThreadStamp(t)
    \/ ThreadTest(t)
    \/ ThreadDebitRead(t)
    \/ ThreadDebitWrite(t)
    \/ ThreadConsumed(t)

\* the steps of the clock explored while threads run, in seconds
RaceTickSteps == {15}

\* time passes before the two calls; the calls themselves are made at one
\* instant
ThreadTick(d) ==
    /\ \A t \in Threads : threads[t].pc \in {"consume_now", "bypass"}
    /\ now + d <= MaxRaceTime
    /\ now' = now + d
    /\ UNCHANGED <<debug_mode, per_minute, per_hour, per_day, minute_buckets, hour_buckets, day_buckets, last_check>>
    /\ UNCHANGED threadVars

\* the buckets two threads race on when they call consume themselves: a
\* bucket of one or two tokens that refills in 60 seconds, constructed at
\* time 0 and holding 0, 1 or 2 tokens
RaceBuckets ==
    LET Held == { [TokenBucket(capacity, 60, 0) EXCEPT !.tokens = held * TokenUnit] :
                    capacity \in 1..2, held \in 0..2 }
    IN {b \in Held : b.tokens <= b.max_tokens}

\* two threads call consume() on one bucket
ConsumeRaceInit ==
    /\ \E b \in RaceBuckets : heap = <<b>> /\ heap0 = <<b>>
    /\ dicts = [w \in {"minute", "hour", "day"} |-> <<>>]
    /\ threads = [t \in Threads |-> ConsumeThread(1)]

\* the requests of the two threads: the first comes with an api key from a
\* remote address, the second is any request
RacingRequests ==
    {<<r1, r2>> \in Requests \X Requests : r1.api_key # "" /\ r1.host \notin LocalHosts}

\* two threads call check_rate_limit on a RateLimiter that has seen no client
LimiterRaceInit ==
    /\ heap = <<>>
    /\ heap0 = <<>>
    /\ dicts = [w \in {"minute", "hour", "day"} |-> <<>>]
    /\ \E rr \in RacingRequests :
          threads = [t \in Threads |-> LimiterThread(rr[t])]

ThreadsInit == ConsumeRaceInit \/ LimiterRaceInit

ThreadsIdle ==
    /\ heap = <<>>
    /\ heap0 = <<>>
    /\ dicts = [w \in {"minute", "hour", "day"} |-> <<>>]
    /\ threads = [t \in Threads |-> NoThread]

ThreadsNext ==
    \/ \E t \in Threads :
          ThreadStep(t) /\ UNCHANGED limiterVars
    \/ \E d \in RaceTickSteps : ThreadTick(d)

----------------------------------------------------------------------------
(* MetricsCollector                                                         *)
(* Each method is "with self.lock:" around its statements.  A thread takes *)
(* the lock, runs the statements one at a time (an increment is a read and *)
(* a write) and gives the lock back.                                       *)

\* MetricsCollector.__init__: window_size, in minutes
WindowSize == 60

\* deque(maxlen=1000)
MaxLen == 1000

\* d[key] += 1 on a defaultdict(int), and the "if key not in d: d[key] = 0"
\* followed by d[key] += 1 of the per-minute counters
Increment(d, key) ==
    [k \in DOMAIN d \cup {key} |->
        IF k = key THEN (IF key \in DOMAIN d THEN d[key] ELSE 0) + 1 ELSE d[k]]

\* an append that leaves a full deque as it is
DequeAppend_DropNewest(q, x) ==
    IF Len(q) < MaxLen THEN Append(q, x) ELSE q

\* deque.append on a deque with maxlen
DequeAppend(q, x) ==
    IF Len(q) < MaxLen THEN Append(q, x) ELSE Append(Tail(q), x)

\* datetime.now().replace(second=0, microsecond=0), in seconds
ThisMinute == (now \div 60) * 60

\* {k: v for k, v in d.items() if k >= cutoff}
Since(d, cutoff) == [k \in {m \in DOMAIN d : m >= cutoff} |-> d[k]]

\* the collector after __init__ and after reset
EmptyMetrics ==
    [request_count |-> 0,
     error_count |-> 0,
     model_usage |-> <<>>,
     status_codes |-> <<>>,
     response_times |-> <<>>,
     requests_by_minute |-> <<>>,
     errors_by_minute |-> <<>>,
     rate_limit_encounters |-> 0]

\* sum(response_times)
RECURSIVE Sum(_)
Sum(q) == IF q = <<>> THEN 0 ELSE Head(q) + Sum(Tail(q))

\* a / b of two numbers, kept as the pair of a and b
Ratio(a, b) == [num |-> a, den |-> b]

\* get_summary with the two divisions made without their guards
get_summary_Unguarded(m) ==
    [total_requests |-> m.request_count,
     total_errors |-> m.error_count,
     error_rate |-> Ratio(m.error_count, m.request_count),
     average_response_time |-> Ratio(Sum(m.response_times), Len(m.response_times)),
     rate_limit_encounters |-> m.rate_limit_encounters,
     model_usage |-> m.model_usage,
     status_codes |-> m.status_codes,
     requests_per_minute |-> m.requests_by_minute,
     errors_per_minute |-> m.errors_by_minute]

\* the dictionary get_summary returns for a collector with the fields m; a
\* quotient is 0 / 1 where the code takes its else branch
get_summary(m) ==
    [total_requests |-> m.request_count,
     total_errors |-> m.error_count,
     error_rate |-> IF m.request_count # 0
                    THEN Ratio(m.error_count, m.request_count) ELSE Ratio(0, 1),
     average_response_time |-> IF m.response_times # <<>>
                               THEN Ratio(Sum(m.response_times), Len(m.response_times))
                               ELSE Ratio(0, 1),
     rate_limit_encounters |-> m.rate_limit_encounters,
     model_usage |-> m.model_usage,
     status_codes |-> m.status_codes,
     requests_per_minute |-> m.requests_by_minute,
     errors_per_minute |-> m.errors_by_minute]

\* the methods a thread may call, with the arguments explored
MetricsCalls ==
    { [op |-> "record_request", arg |-> "gpt-4"],
      [op |-> "record_response_time", arg |-> 1],
      [op |-> "record_response_time", arg |-> 2],
      [op |-> "record_error", arg |-> 500],
      [op |-> "record_rate_limit", arg |-> 0],
      [op |-> "reset", arg |-> 0],
      [op |-> "get_summary", arg |-> 0],
      [op |-> "_cleanup_old_data", arg |-> 0] }

\* a thread that is in none of the methods
IdleCaller == [pc |-> "idle", op |-> "", arg |-> 0, value |-> 0, calls |-> 0]

\* thread t calls a method: it arrives at "with self.lock"
CallMetrics(t, call) ==
    /\ callers[t].pc = "idle"
    /\ callers[t].calls < MaxCalls
    /\ callers' = [callers EXCEPT ![t] =
                      [pc |-> "acquire", op |-> call.op, arg |-> call.arg,
                       value |-> 0, calls |-> @.calls + 1]]
    /\ UNCHANGED <<metrics, lock, finished, samples>>

\* the first statement of a method's body
Body(op) ==
    IF op = "record_request" THEN "request_read"
    ELSE IF op = "record_error" THEN "error_read"
    ELSE IF op = "record_rate_limit" THEN "rate_limit_read"
    ELSE op

\* entering the body without waiting for the lock to be free
Acquire_NoWait(t) ==
    /\ callers[t].pc = "acquire"
    /\ lock' = t
    /\ callers' = [callers EXCEPT ![t].pc = Body(callers[t].op)]
    /\ UNCHANGED <<metrics, finished, samples>>

\* with self.lock: the thread waits until the lock is free and takes it
Acquire(t) ==
    /\ callers[t].pc = "acquire"
    /\ lock = 0
    /\ lock' = t
    /\ callers' = [callers EXCEPT ![t].pc = Body(callers[t].op)]
    /\ UNCHANGED <<metrics, finished, samples>>

\* thread t is at statement at and goes on to statement to
At(t, at, to) ==
    /\ callers[t].pc = at
    /\ callers' = [callers EXCEPT ![t].pc = to]

\* record_request: self.request_count += 1, the read
RequestRead(t) ==
    /\ callers[t].pc = "request_read"
    /\ callers' = [callers EXCEPT ![t].pc = "request_write",
                                  ![t].value = metrics.request_count + 1]
    /\ UNCHANGED <<metrics, lock, finished, samples>>

\* record_request: self.request_count += 1, the write
RequestWrite(t) ==
    /\ At(t, "request_write", "request_usage")
    /\ metrics' = [metrics EXCEPT !.request_count = callers[t].value]
    /\ UNCHANGED <<lock, finished, samples>>

\* record_request: self.model_usage[model] += 1
RequestUsage(t) ==
    /\ At(t, "request_usage", "request_minute")
    /\ metrics' = [metrics EXCEPT !.model_usage = Increment(@, callers[t].arg)]
    /\ UNCHANGED <<lock, finished, samples>>

\* record_request: the counter of the current minute
RequestMinute(t) ==
    /\ At(t, "request_minute", "release")
    /\ metrics' = [metrics EXCEPT !.requests_by_minute = Increment(@, ThisMinute)]
    /\ UNCHANGED <<lock, finished, samples>>

\* record_response_time: self.response_times.append(duration)
ResponseTimeAppend(t) ==
    /\ At(t, "record_response_time", "release")
    /\ metrics' = [metrics EXCEPT !.response_times = DequeAppend(@, callers[t].arg)]
    /\ samples' = Append(samples, callers[t].arg)
    /\ UNCHANGED <<lock, finished>>

\* record_error: self.error_count += 1, the read
ErrorRead(t) ==
    /\ callers[t].pc = "error_read"
    /\ callers' = [callers EXCEPT ![t].pc = "error_write",
                                  ![t].value = metrics.error_count + 1]
    /\ UNCHANGED <<metrics, lock, finished, samples>>

\* record_error: self.error_count += 1, the write
ErrorWrite(t) ==
    /\ At(t, "error_write", "error_status")
    /\ metrics' = [metrics EXCEPT !.error_count = callers[t].value]
    /\ UNCHANGED <<lock, finished, samples>>

\* record_error: self.status_codes[status_code] += 1
ErrorStatus(t) ==
    /\ At(t, "error_status", "error_minute")
    /\ metrics' = [metrics EXCEPT !.status_codes = Increment(@, callers[t].arg)]
    /\ UNCHANGED <<lock, finished, samples>>

\* record_error: the counter of the current minute
ErrorMinute(t) ==
    /\ At(t, "error_minute", "release")
    /\ metrics' = [metrics EXCEPT !.errors_by_minute = Increment(@, ThisMinute)]
    /\ UNCHANGED <<lock, finished, samples>>

\* record_rate_limit: self.rate_limit_encounters += 1, the read
RateLimitRead(t) ==
    /\ callers[t].pc = "rate_limit_read"
    /\ callers' = [callers EXCEPT ![t].pc = "rate_limit_write",
                                  ![t].value = metrics.rate_limit_encounters + 1]
    /\ UNCHANGED <<metrics, lock, finished, samples>>

\* record_rate_limit: self.rate_limit_encounters += 1, the write
RateLimitWrite(t) ==
    /\ At(t, "rate_limit_write", "release")
    /\ metrics' = [metrics EXCEPT !.rate_limit_encounters = callers[t].value]
    /\ UNCHANGED <<lock, finished, samples>>

\* get_summary: the summary of the fields as they are, held until the return
SummaryBody(t) ==
    /\ callers[t].pc = "get_summary"
    /\ callers' = [callers EXCEPT ![t].pc = "release",
                                  ![t].value = get_summary(metrics)]
    /\ UNCHANGED <<metrics, lock, finished, samples>>

\* reset: every field back to its initial value
ResetBody(t) ==
    /\ At(t, "reset", "release")
    /\ metrics' = EmptyMetrics
    /\ finished' = [record_request |-> 0, record_error |-> 0]
    /\ samples' = <<>>
    /\ UNCHANGED lock

\* _cleanup_old_data: the per-minute counters older than window_size minutes go
CleanupBody(t) ==
    /\ At(t, "_cleanup_old_data", "release")
    /\ LET cutoff == now - WindowSize * 60
       IN metrics' = [metrics EXCEPT !.requests_by_minute = Since(@, cutoff),
                                     !.errors_by_minute = Since(@, cutoff)]
    /\ UNCHANGED <<lock, finished, samples>>

\* the end of "with self.lock": the lock is given back and the method returns
Release(t) ==
    /\ At(t, "release", "idle")
    /\ lock' = 0
    /\ finished' = IF callers[t].op \in {"record_request", "record_error"}
                   THEN [finished EXCEPT ![callers[t].op] = @ + 1]
                   ELSE finished
    /\ UNCHANGED <<metrics, samples>>

\* the steps of the clock explored for the collector, in seconds
MetricsTickSteps == {3660}

\* the clock moves on
MetricsTick(d) ==
    /\ now + d <= MaxMetricsTime
    /\ now' = now + d
    /\ UNCHANGED <<debug_mode, per_minute, per_hour, per_day, minute_buckets, hour_buckets, day_buckets, last_check>>
    /\ UNCHANGED metricsVars

\* MetricsCollector.__init__
MetricsInit ==
    /\ metrics = EmptyMetrics
    /\ lock = 0
    /\ callers = [t \in Threads |-> IdleCaller]
    /\ finished = [record_request |-> 0, record_error |-> 0]
    /\ samples = <<>>

MetricsStep(t) ==
    \/ \E call \in MetricsCalls : CallMetrics(t, call)
    \/ Acquire(t)
    \/ RequestRead(t)
    \/ RequestWrite(t)
    \/ RequestUsage(t)
    \/ RequestMinute(t)
    \/ ResponseTimeAppend(t)
    \/ ErrorRead(t)
    \/ ErrorWrite(t)
    \/ ErrorStatus(t)
    \/ ErrorMinute(t)
    \/ RateLimitRead(t)
    \/ RateLimitWrite(t)
    \/ SummaryBody(t)
    \/ ResetBody(t)
    \/ CleanupBody(t)
    \/ Release(t)

MetricsNext ==
    \/ \E t \in Threads : MetricsStep(t) /\ UNCHANGED limiterVars
    \/ \E d \in MetricsTickSteps : MetricsTick(d)

\* the durations explored
Durations == {1, 2, 3}

\* n durations in arrival order: 1, 2, 0, 1, 2, 0, ...
Recorded(n) == [i \in 1..n |-> i % 3]

\* a collector whose owner has called record_response_time n times since
\* creation, for no call, one call short of a full window and a full window
WindowInit ==
    /\ \E n \in {0, MaxLen - 1, MaxLen} :
          /\ samples = Recorded(n)
          /\ metrics = [EmptyMetrics EXCEPT !.response_times = Recorded(n)]
    /\ lock = 0
    /\ callers = [t \in Threads |-> IdleCaller]
    /\ finished = [record_request |-> 0, record_error |-> 0]

\* metrics.record_response_time(duration), called by one thread
RecordResponseTime(duration) ==
    /\ lock = 0
    /\ \/ Len(samples) < MaxSamples
       \/ Len(samples) >= MaxLen - 1 /\ Len(samples) < MaxLen + MaxSamples
    /\ metrics' = [metrics EXCEPT !.response_times = DequeAppend(@, duration)]
    /\ samples' = Append(samples, duration)
    /\ UNCHANGED <<lock, callers, finished>>

\* metrics.reset(), called by one thread
Reset ==
    /\ lock = 0
    /\ metrics' = EmptyMetrics
    /\ finished' = [record_request |-> 0, record_error |-> 0]
    /\ samples' = <<>>
    /\ UNCHANGED <<lock, callers>>

WindowNext ==
    \/ \E duration \in Durations : RecordResponseTime(duration)
    \/ Reset

----------------------------------------------------------------------------
(* The batch runner main()                                                  *)
(* idx counts the rows from 1. The clock (bot_times, time.sleep(10)) is    *)
(* left out: it changes no other value.                                    *)

\* SUPPORTED_MODELS with an identifier answer_question does not support
SUPPORTED_MODELS_Wide == {"gpt-3.5-turbo", "gpt-4", "gpt-4o", "gpt-5"}

SUPPORTED_MODELS == {"gpt-3.5-turbo", "gpt-4", "gpt-4o"}

\* for attempt in range(3)
OuterAttempts == 3

\* sep.join(list)
RECURSIVE Join(_, _)
Join(sep, list) ==
    IF list = <<>> THEN <<>>
    ELSE IF Len(list) = 1 THEN Head(list)
    ELSE Head(list) \o sep \o Join(sep, Tail(list))

\* re.sub(r'\s+', ' ', r): every run of whitespace becomes one space
RECURSIVE CollapseSpaces(_)
CollapseSpaces(r) ==
    IF r = <<>> THEN <<>>
    ELSE IF Head(r) \in Whitespace
    THEN IF Len(r) > 1 /\ r[2] \in Whitespace
         THEN CollapseSpaces(Tail(r))
         ELSE <<" ">> \o CollapseSpaces(Tail(r))
    ELSE <<Head(r)>> \o CollapseSpaces(Tail(r))

\* the command lines explored: the script name and up to n arguments
RECURSIVE ArgvsOf(_)
ArgvsOf(n) ==
    IF n = 0 THEN {<<"__main__.py">>}
    ELSE {a \o <<x>> : a \in ArgvsOf(n - 1), x \in {"gpt-4", "gpt-5", "test"}}

\* the input files explored: up to n rows, each with a question or a blank
RECURSIVE RowsOf(_)
RowsOf(n) ==
    IF n = 0 THEN {<<>>}
    ELSE {rows \o <<q>> : rows \in RowsOf(n - 1), q \in {<<"?">>, <<" ">>}}

\* the answers explored for main: those of AnswerTexts and one of two lines
BatchAnswers ==
    AnswerTexts \cup { <<"R","e"," ","F","o","o",".","\n"," ","R","e"," ","B","a","r">> }

\* the exceptions answer_question can raise for the question q, a supported
\* model and a credential: ValueError for a blank question, else the
\* RuntimeError of a provider failure
AnswerExceptions(q) == IF IsBlank(q) THEN {"ValueError"} ELSE {"RuntimeError"}

\* what answer_question(q, False, model) can produce for a supported model
\* and a credential: one of its exceptions or, for a question that is not
\* blank, a result
AnswerOutcomes(q) ==
    {[kind |-> "raise", type |-> e, value |-> <<>>] : e \in AnswerExceptions(q)}
    \cup IF IsBlank(q) THEN {}
         ELSE {[kind |-> "return", type |-> "",
                value |-> [_response |-> t,
                           legislation |-> extract_references(t).legislation,
                           cases |-> extract_references(t).cases,
                           forms |-> extract_references(t).forms]] : t \in BatchAnswers}

\* the lists of results before the loop: one empty entry per row
EmptyBot(n) ==
    [bot_responses |-> [i \in 1..n |-> <<>>],
     bot_attempts |-> [i \in 1..n |-> 0],
     bot_statutes |-> [i \in 1..n |-> <<>>],
     bot_cases |-> [i \in 1..n |-> <<>>],
     bot_forms |-> [i \in 1..n |-> <<>>]]

\* main() up to the loop over the rows: the four checks, each ending in
\* sys.exit(1), then the reading of the input file
Main(argv) ==
    /\ main_pc = "idle"
    /\ sys_argv' = argv
    /\ main_attempt' = 0
    /\ locals' = None
    /\ answer_calls' = <<>>
    /\ IF Len(argv) # 3
       THEN /\ printed' = <<"COMMAND_LINE_PARAM">>
            /\ exit_code' = Some(1)
            /\ main_pc' = "exit"
            /\ UNCHANGED <<df, idx, bot>>
       ELSE IF CredentialMissing(environ_key)
       THEN /\ printed' = <<"Please set the environment variable OPENAI_API_KEY.">>
            /\ exit_code' = Some(1)
            /\ main_pc' = "exit"
            /\ UNCHANGED <<df, idx, bot>>
       ELSE IF argv[2] \notin SUPPORTED_MODELS
       THEN /\ printed' = <<"COMMAND_LINE_PARAM", "Supported models:">>
            /\ exit_code' = Some(1)
            /\ main_pc' = "exit"
            /\ UNCHANGED <<df, idx, bot>>
       ELSE IF input_file = None
       THEN /\ printed' = <<"Processing dataset: {mode} using model: {model}",
                            "Error: Input file not found: {input_file}">>
            /\ exit_code' = Some(1)
            /\ main_pc' = "exit"
            /\ UNCHANGED <<df, idx, bot>>
       ELSE /\ printed' = <<"Processing dataset: {mode} using model: {model}">>
            /\ exit_code' = None
            /\ df' = input_file[1]
            /\ idx' = 1
            /\ bot' = EmptyBot(Len(input_file[1]))
            /\ main_pc' = IF input_file[1] = <<>> THEN "saved" ELSE "attempt"
    /\ UNCHANGED <<environ_key, input_file>>

\* one pass of "for attempt in range(3)": the call of answer_question and
\* either the four assignments and the break, or the except clause
MainAttempt(outcome_) ==
    /\ main_pc = "attempt"
    /\ answer_calls' = Append(answer_calls, [idx |-> idx, outcome |-> outcome_])
    /\ IF outcome_.kind = "return"
       THEN /\ locals' = Some([r |-> outcome_.value._response,
                               statutes |-> Join(<<"|">>, outcome_.value.legislation),
                               cases |-> Join(<<"|">>, outcome_.value.cases),
                               forms |-> Join(<<"|">>, outcome_.value.forms)])
            /\ main_pc' = "record"
            /\ UNCHANGED main_attempt
       ELSE /\ IF main_attempt + 1 < OuterAttempts
               THEN main_attempt' = main_attempt + 1 /\ main_pc' = "attempt"
               ELSE UNCHANGED main_attempt /\ main_pc' = "record"
            /\ UNCHANGED locals
    /\ UNCHANGED <<environ_key, input_file, sys_argv, printed, exit_code, df, idx, bot>>

\* the statements after the inner loop: the results of the row are stored
\* (a read of r while it is unbound raises UnboundLocalError, which ends
\* main), then the next row is taken or the output file is written
MainRecord ==
    /\ main_pc = "record"
    /\ IF locals = None
       THEN /\ main_pc' = "crash"
            /\ UNCHANGED <<idx, main_attempt, bot>>
       ELSE /\ bot' = [bot EXCEPT
                          !.bot_responses[idx] = CollapseSpaces(locals[1].r),
                          !.bot_attempts[idx] = main_attempt + 1,
                          !.bot_statutes[idx] = locals[1].statutes,
                          !.bot_cases[idx] = locals[1].cases,
                          !.bot_forms[idx] = locals[1].forms]
            /\ idx' = idx + 1
            /\ main_attempt' = 0
            /\ main_pc' = IF idx < Len(df) THEN "attempt" ELSE "saved"
    /\ UNCHANGED <<environ_key, input_file, sys_argv, printed, exit_code, df, locals,
                   answer_calls>>

\* the process before main() runs
NotStarted ==
    /\ main_pc = "idle"
    /\ sys_argv = <<>>
    /\ printed = <<>>
    /\ exit_code = None
    /\ df = <<>>
    /\ idx = 0
    /\ main_attempt = 0
    /\ locals = None
    /\ bot = EmptyBot(0)
    /\ answer_calls = <<>>

\* the environment and the input file main() is started with
BatchInit ==
    /\ environ_key \in ApiKeys
    /\ input_file \in {None} \cup {Some(rows) : rows \in UNION {RowsOf(k) : k \in 0..MaxRows}}
    /\ NotStarted

BatchIdle ==
    /\ environ_key = None
    /\ input_file = None
    /\ NotStarted

BatchNext ==
    \/ \E n \in 0..MaxArgs : \E argv \in ArgvsOf(n) : Main(argv)
    \/ /\ main_pc = "attempt"
       /\ \E outcome_ \in AnswerOutcomes(df[idx]) : MainAttempt(outcome_)
    \/ MainRecord

----------------------------------------------------------------------------
(* The /ask route and its RequestTracker, one request at a time. A method  *)
(* of the collector takes and gives back the lock within the step. The     *)
(* route's own counters request_count, model_usage and success_count are   *)
(* not the collector's and are left out.                                   *)

\* MetricsCollector.record_request
record_request(m, model_) ==
    [m EXCEPT !.request_count = @ + 1,
              !.model_usage = Increment(@, model_),
              !.requests_by_minute = Increment(@, ThisMinute)]

\* MetricsCollector.record_error
record_error(m, status_code) ==
    [m EXCEPT !.error_count = @ + 1,
              !.status_codes = Increment(@, status_code),
              !.errors_by_minute = Increment(@, ThisMinute)]

\* RequestTracker.__exit__: exc_val is None or the exception that left the
\* body (none of those answer_question raises has a status_code), and
\* error_status is None or the status given to RequestTracker.record_error
TrackerExit(m, duration, exc_val, error_status) ==
    LET timed == [m EXCEPT !.response_times = DequeAppend(@, duration)]
        failed == IF exc_val # None THEN record_error(timed, 500) ELSE timed
    IN IF error_status # None THEN record_error(failed, error_status[1]) ELSE failed

\* process_question: the connection test, the check of the configured key,
\* then the tracked call of answer_question, which returns (exc_val is None)
\* or raises exc_val, and the two except clauses
Ask(question, model_, test_connection, exc_val, duration) ==
    /\ Len(responses) < MaxRequests
    /\ IF test_connection
       THEN /\ responses' = Append(responses, 200)
            /\ UNCHANGED metrics
       ELSE IF CredentialMissing(api_key)
       THEN /\ responses' = Append(responses, 503)
            /\ UNCHANGED metrics
       ELSE LET entered == record_request(metrics, model_)
                exited == TrackerExit(entered, duration, exc_val, None)
            IN IF exc_val = None
               THEN /\ responses' = Append(responses, 200)
                    /\ metrics' = exited
               ELSE IF exc_val[1] = "ValueError"
               THEN /\ responses' = Append(responses, 400)
                    /\ metrics' = record_error(exited, 400)
               ELSE /\ responses' = Append(responses, 500)
                    /\ metrics' = record_error(exited, 500)
    /\ UNCHANGED <<lock, callers, finished, samples>>

ApiIdle == responses = <<>>

AskNext ==
    \E question \in {<<"?">>, <<" ">>}, model_ \in supported_models,
       test_connection \in BOOLEAN, duration \in {1, 2} :
        \E exc_val \in {Some(e) : e \in AnswerExceptions(question)}
                       \cup IF IsBlank(question) THEN {} ELSE {None} :
            Ask(question, model_, test_connection, exc_val, duration)

----------------------------------------------------------------------------
(* Specifications                                                           *)

Init == BotInit /\ ExtractIdle /\ LimiterIdle /\ BucketIdle /\ ThreadsIdle /\ MetricsInit /\ BatchIdle /\ ApiIdle

Next == BotNext /\ UNCHANGED <<extractVars, limiterVars, bucketVars, threadVars, metricsVars, batchVars, apiVars>>

Spec == Init /\ [][Next]_vars

InitExtract == ExtractInit /\ BotInit /\ api_key = None /\ LimiterIdle /\ BucketIdle /\ ThreadsIdle /\ MetricsInit /\ BatchIdle /\ ApiIdle

NextExtract == Extract /\ UNCHANGED <<botVars, limiterVars, bucketVars, threadVars, metricsVars, batchVars, apiVars>>

\* the steps of the retry loop
LoopSteps == pc = "loop" /\ Next

\* the single thread of the call runs on after the loop: it does not stay
\* at the statement following the loop for ever
FinishFairness == []<>(pc # "after") \/ []<><<pc = "after" /\ Next>>_vars

\* every provider call returns or raises, and the thread keeps running
FairSpec == Spec /\ WF_vars(LoopSteps) /\ FinishFairness

SpecExtract == InitExtract /\ [][NextExtract]_vars

NextFewRetries ==
    FewRetriesNext
    /\ UNCHANGED <<extractVars, limiterVars, bucketVars, threadVars, metricsVars, batchVars, apiVars>>

SpecFewRetries == Init /\ [][NextFewRetries]_vars

InitLimiter == LimiterInit /\ BotInit /\ api_key = None /\ ExtractIdle /\ BucketIdle /\ ThreadsIdle /\ MetricsInit /\ BatchIdle /\ ApiIdle

NextLimiter == LimiterNext /\ UNCHANGED <<botVars, extractVars, bucketVars, threadVars, metricsVars, batchVars, apiVars>>

SpecLimiter == InitLimiter /\ [][NextLimiter]_vars

InitBucket == BucketInit /\ BotInit /\ api_key = None /\ ExtractIdle /\ LimiterIdle /\ ThreadsIdle /\ MetricsInit /\ BatchIdle /\ ApiIdle

NextBucket == BucketNext /\ UNCHANGED <<botVars, extractVars, threadVars, metricsVars, batchVars, apiVars>>

SpecBucket == InitBucket /\ [][NextBucket]_vars

InitThreads ==
    /\ ThreadsInit
    /\ LimiterInit
    /\ per_hour < per_day
    /\ BotInit /\ api_key = None
    /\ ExtractIdle
    /\ BucketIdle
    /\ MetricsInit
    /\ BatchIdle /\ ApiIdle

NextThreads == ThreadsNext /\ UNCHANGED <<botVars, extractVars, bucketVars, metricsVars, batchVars, apiVars>>

SpecThreads == InitThreads /\ [][NextThreads]_vars

InitMetrics ==
    /\ MetricsInit
    /\ BotInit /\ api_key = None
    /\ ExtractIdle
    /\ LimiterIdle
    /\ BucketIdle
    /\ ThreadsIdle
    /\ BatchIdle /\ ApiIdle

NextMetrics == MetricsNext /\ UNCHANGED <<botVars, extractVars, bucketVars, threadVars, batchVars, apiVars>>

SpecMetrics == InitMetrics /\ [][NextMetrics]_vars

InitWindow ==
    /\ WindowInit
    /\ BotInit /\ api_key = None
    /\ ExtractIdle
    /\ LimiterIdle
    /\ BucketIdle
    /\ ThreadsIdle
    /\ BatchIdle /\ ApiIdle

NextWindow ==
    WindowNext
    /\ UNCHANGED <<botVars, extractVars, limiterVars, bucketVars, threadVars, batchVars, apiVars>>

SpecWindow == InitWindow /\ [][NextWindow]_vars

InitBatch ==
    /\ BatchInit
    /\ BotInit /\ api_key = None
    /\ ExtractIdle
    /\ LimiterIdle
    /\ BucketIdle
    /\ ThreadsIdle
    /\ MetricsInit
    /\ ApiIdle

NextBatch ==
    BatchNext
    /\ UNCHANGED <<botVars, extractVars, limiterVars, bucketVars, threadVars, metricsVars,
                   apiVars>>

InitAsk ==
    /\ ApiIdle
    /\ MetricsInit
    /\ BotInit
    /\ ExtractIdle
    /\ LimiterIdle
    /\ BucketIdle
    /\ ThreadsIdle
    /\ BatchIdle

NextAsk ==
    AskNext
    /\ UNCHANGED <<botVars, extractVars, limiterVars, bucketVars, threadVars, batchVars>>

SpecAsk == InitAsk /\ [][NextAsk]_vars

SpecBatch == InitBatch /\ [][NextBatch]_vars

----------------------------------------------------------------------------
(* Properties of answer_question                                            *)

\* the supported set and the retryable signals, as the specification lists them
ThreeModels == {"gpt-3.5-turbo", "gpt-4", "gpt-4o"}

RetryableSignals ==
    {"RateLimitError", "APIError", "ServiceUnavailableError", "APIConnectionError"}

WhitespaceOnly(q) == \A k \in 1..Len(q) : q[k] \in Whitespace

ValidInput == model \in ThreeModels /\ ~WhitespaceOnly(question_text)

HasCredential == api_key # None /\ api_key # Some(<<>>)

Started == pc # "idle"

NumCalls == Len(create_calls)

ResultOf(k) == create_calls[k].result

FailsRetryably(k) ==
    ResultOf(k).kind = "error" /\ ResultOf(k).cls \in RetryableSignals

FailsFatally(k) ==
    ResultOf(k).kind \in {"error", "malformed"} /\ ResultOf(k).cls \notin RetryableSignals

Succeeds(k) == ResultOf(k).kind = "content"

Raised(type) ==
    /\ pc = "done"
    /\ outcome # None
    /\ outcome[1].kind = "raise"
    /\ outcome[1].type = type

RaisedWith(type, format, detail) ==
    /\ Raised(type)
    /\ outcome[1].format = format
    /\ outcome[1].detail = detail

Returned ==
    /\ pc = "done"
    /\ outcome # None
    /\ outcome[1].kind = "return"

ExhaustedFormat ==
    "Failed to get response after {max_retries} attempts. Last error: {last_error}"

FatalFormat == "Error calling OpenAI API: {e}"

\* C1: a call with an unsupported model, or with an empty or whitespace-only
\* question, fails with ValueError, and the provider was never called and no
\* sleep was made.
C1_InvalidInputFailsFast ==
    (Started /\ (model \notin ThreeModels \/ WhitespaceOnly(question_text)))
        => /\ Raised("ValueError")
           /\ create_calls = <<>>
           /\ sleeps = <<>>

C1_Witness ==
    /\ Raised("ValueError")
    /\ model \in ThreeModels
    /\ question_text # <<>>
    /\ WhitespaceOnly(question_text)
    /\ HasCredential

\* C2: with max_retries = 3 and a provider that fails retryably on attempts 1
\* and 2 and succeeds on attempt 3, the call goes on to a second and a third
\* attempt, returns a result, has made exactly 3 provider calls, and has slept
\* exactly 1 second and then 2 seconds.
C2_TwoFailuresThenSuccess ==
    (Started /\ max_retries = 3 /\ NumCalls >= 1 /\ FailsRetryably(1))
        => /\ NumCalls = 1 => (pc = "loop" /\ sleeps = <<1>>)
           /\ (NumCalls >= 2 /\ FailsRetryably(2))
                => /\ NumCalls = 2 => (pc = "loop" /\ sleeps = <<1, 2>>)
                   /\ (NumCalls >= 3 /\ Succeeds(3))
                        => /\ NumCalls = 3
                           /\ sleeps = <<1, 2>>
                           /\ pc \in {"after", "done"}
                           /\ pc = "done" =>
                                (Returned /\ outcome[1].value._response = ResultOf(3).content)

C2_Witness ==
    /\ Returned
    /\ max_retries = 3
    /\ NumCalls = 3
    /\ FailsRetryably(1)
    /\ FailsRetryably(2)
    /\ Succeeds(3)
    /\ sleeps = <<1, 2>>

\* C3: while every attempt so far has failed retryably the call keeps
\* attempting until it has made max_retries provider calls, makes no more, and
\* then fails with the exhausted-retries RuntimeError, which carries the error
\* of the last attempt.
C3_ExhaustedAfterMaxRetries ==
    (Started /\ ValidInput /\ HasCredential /\ \A k \in 1..NumCalls : FailsRetryably(k))
        => /\ NumCalls <= max_retries
           /\ NumCalls < max_retries => pc = "loop"
           /\ NumCalls = max_retries => pc \in {"after", "done"}
           /\ (pc = "done" /\ max_retries >= 1)
                => RaisedWith("RuntimeError", ExhaustedFormat,
                              ErrText(ResultOf(max_retries).cls))

C3_Witness ==
    /\ Raised("RuntimeError")
    /\ outcome[1].format = ExhaustedFormat
    /\ max_retries = 3
    /\ NumCalls = 3
    /\ \A k \in 1..3 : FailsRetryably(k)
    /\ ResultOf(3).cls # ResultOf(2).cls

\* C4: an attempt that fails with a non-retryable condition is the last
\* attempt: the call has ended with the fatal RuntimeError, whose message holds
\* the text of the underlying error, no sleep was made for that attempt, and the
\* attempt counter was not advanced.
C4_FatalErrorRaisedAtOnce ==
    \A k \in 1..NumCalls :
        FailsFatally(k)
            => /\ k = NumCalls
               /\ RaisedWith("RuntimeError", FatalFormat, ErrText(ResultOf(k).cls))
               /\ Len(sleeps) = k - 1
               /\ attempt = k - 1

C4_Witness ==
    /\ Raised("RuntimeError")
    /\ outcome[1].format = FatalFormat
    /\ max_retries = 3
    /\ NumCalls = 2
    /\ FailsRetryably(1)
    /\ FailsFatally(2)
    /\ sleeps = <<1>>

FirstAttemptSucceeds == pc = "done" /\ NumCalls >= 1 /\ Succeeds(1)

\* the result holds the provider's text, and the provider was called once with
\* the caller's model, temperature 0.7 and max_tokens 1200
VerbatimAfterOneCall ==
    /\ Returned
    /\ outcome[1].value._response = ResultOf(1).content
    /\ NumCalls = 1
    /\ model \in ThreeModels
    /\ create_calls[1].model = model
    /\ create_calls[1].temperature = 7
    /\ create_calls[1].max_tokens = 1200

SomeMessageContains(str) ==
    \E m \in 1..Len(create_calls[1].messages) :
        Contains(str, create_calls[1].messages[m].content)

\* C5 as stated: when the first attempt succeeds, the result holds the
\* provider's text verbatim, and the provider was called exactly once, with the
\* caller's model, temperature 0.7, max_tokens 1200 and a message containing
\* the question text.
C5_Original_MessageContainsQuestion ==
    FirstAttemptSucceeds
        => (VerbatimAfterOneCall /\ SomeMessageContains(question_text))

\* C5 as amended: ... and a message containing the question text without its
\* trailing whitespace.
C5_MessageContainsStrippedQuestion ==
    FirstAttemptSucceeds
        => (VerbatimAfterOneCall /\ SomeMessageContains(RStrip(question_text)))

C5_Witness ==
    /\ FirstAttemptSucceeds
    /\ Returned
    /\ RStrip(question_text) # question_text
    /\ outcome[1].value._response # <<>>

Terminal ==
    \/ Returned
    \/ Raised("ValueError")
    \/ Raised("EnvironmentError")
    \/ Raised("RuntimeError")

\* C6: every call ends, with a result or with one of the raised errors, and
\* never makes more than max_retries provider calls.
C6_TerminatesWithinMaxRetries ==
    /\ [](NumCalls <= max_retries)
    /\ Started ~> Terminal

C6_Witness ==
    /\ Terminal
    /\ max_retries >= 2
    /\ NumCalls = max_retries

\* C7: with a supported model and a non-blank question but no credential, the
\* call fails with EnvironmentError and the provider was never called.
C7_NoCredentialFailsFast ==
    (Started /\ ValidInput /\ ~HasCredential)
        => /\ Raised("EnvironmentError")
           /\ create_calls = <<>>

C7_Witness ==
    /\ Raised("EnvironmentError")
    /\ ValidInput
    /\ api_key = Some(<<>>)

----------------------------------------------------------------------------
(* Properties of extract_references                                         *)

\* C8: none of the three returned lists holds an entry twice.
C8_NoDuplicateEntries ==
    refs # None
        => /\ NoDuplicates(refs[1].legislation)
           /\ NoDuplicates(refs[1].cases)
           /\ NoDuplicates(refs[1].forms)

TheInsolvencyAct == <<"t","h","e"," ","I","n","s","o","l","v","e","n","c","y"," ","A","c","t">>

TheInsolvencyAct1986 == TheInsolvencyAct \o <<" ","1","9","8","6">>

\* sub occurs in s from position i on
OccursAt(sub, s, i) ==
    /\ i + Len(sub) - 1 <= Len(s)
    /\ SubSeq(s, i, i + Len(sub) - 1) = sub

\* position j of s is followed by a space and four digits
YearFollows(s, j) ==
    /\ j + 5 <= Len(s)
    /\ s[j + 1] = " "
    /\ \A k \in 2..5 : s[j + k] \in Digit

\* s mentions "the Insolvency Act" without a year after it
YearlessMention(s) ==
    \E i \in 1..Len(s) :
       /\ OccursAt(TheInsolvencyAct, s, i)
       /\ ~YearFollows(s, i + Len(TheInsolvencyAct) - 1)

\* the mentions of legislation in s: what the legislation patterns match
LegislationMentions(s) ==
    UNION { LET matches == FindIter(legislation_patterns[k], s, 1, TRUE)
            IN {Strip(Group0(s, matches[n])) : n \in 1..Len(matches)} :
            k \in 1..Len(legislation_patterns) }

\* C19: a legislation match with "insolvency act" (in any case) and without
\* "1986" is listed with " 1986" appended, one with "companies act" and
\* without "2006" with " 2006" appended, and the duplicate check sees the
\* name so completed: a text with a year-less mention of "the Insolvency Act"
\* yields the entry "the Insolvency Act 1986", and a text whose mentions of
\* legislation are "the Insolvency Act 1986", with or without further
\* year-less mentions of "the Insolvency Act", yields that one entry only.
C19_YearAppendedBeforeDuplicateCheck ==
    refs # None
        => LET listed == refs[1].legislation
               mentions == LegislationMentions(text)
               Lacks(m, act, year) == Contains(act, ToLower(m)) /\ ~Contains(year, m)
           IN /\ \A m \in mentions :
                    LET insolvency == Lacks(m, <<"i","n","s","o","l","v","e","n","c","y"," ","a","c","t">>, <<"1","9","8","6">>)
                        companies == Lacks(m, <<"c","o","m","p","a","n","i","e","s"," ","a","c","t">>, <<"2","0","0","6">>)
                    IN /\ (insolvency /\ ~companies)
                             => /\ InList(m \o <<" ","1","9","8","6">>, listed)
                                /\ ~InList(m, listed)
                       /\ (companies /\ ~insolvency)
                             => /\ InList(m \o <<" ","2","0","0","6">>, listed)
                                /\ ~InList(m, listed)
              /\ YearlessMention(text) => InList(TheInsolvencyAct1986, listed)
              /\ (/\ Contains(TheInsolvencyAct1986, text)
                  /\ mentions \subseteq {TheInsolvencyAct1986, TheInsolvencyAct})
                    => listed = <<TheInsolvencyAct1986>>

\* a text with "the Insolvency Act 1986" and a year-less "the Insolvency Act"
\* has yielded the one entry
C19_Witness ==
    /\ refs # None
    /\ Contains(TheInsolvencyAct1986, text)
    /\ YearlessMention(text)
    /\ refs[1].legislation = <<TheInsolvencyAct1986>>

\* a text with a year-less "Companies Act" has yielded "Companies Act 2006"
C19_CompaniesActReached ==
    /\ refs # None
    /\ InList(<<"C","o","m","p","a","n","i","e","s"," ","A","c","t"," ","2","0","0","6">>, refs[1].legislation)

SalomonCase == <<"S","a","l","o","m","o","n"," ","v"," ","A"," ","S","a","l","o","m","o","n"," ","&"," ","C","o"," ","L","t","d">>

\* C20: a text that contains "Salomon v A Salomon & Co Ltd" yields a cases
\* list with that exact string as an entry.
C20_SalomonCaseListed ==
    (refs # None /\ Contains(SalomonCase, text)) => InList(SalomonCase, refs[1].cases)

----------------------------------------------------------------------------
(* Properties of the RateLimiter                                            *)

\* the tokens a bucket holds at the current time, before any debit
TokensNow(b) == Min(b.max_tokens, b.tokens + Refill(b, now - b.last_check))

\* the client's bucket of a window would admit one request now
Admits(buckets, client_id, tokens, window) ==
    TokensNow(BucketOf(buckets, client_id, tokens, window, now)) >= TokenUnit

\* the step has left the client's bucket one token below what it held
DebitedOne(buckets, after, client_id, tokens, window) ==
    /\ client_id \in DOMAIN after
    /\ after[client_id].tokens
         = TokensNow(BucketOf(buckets, client_id, tokens, window, now)) - TokenUnit
    /\ after[client_id].last_check = now

\* debug mode lets a request from the local host through without the buckets
Bypassed(request) == debug_mode /\ request.host \in {"127.0.0.1", "localhost"}

\* C9: when a check_rate_limit call finds the minute bucket denying, it returns
\* false and leaves the hour and day buckets of every client as they were.
C9_MinuteDenialLeavesHourAndDay ==
    [][\A request \in Requests :
          (/\ CheckRateLimit(request)
           /\ ~Bypassed(request)
           /\ ~Admits(minute_buckets, get_client_id(request), per_minute, 60))
              => /\ last_check'[1].result = FALSE
                 /\ hour_buckets' = hour_buckets
                 /\ day_buckets' = day_buckets]_vars

C9_Witness ==
    /\ last_check # None
    /\ last_check[1].consumed = <<[window |-> "minute", ok |-> FALSE]>>
    /\ ~last_check[1].result
    /\ last_check[1].client_id \in DOMAIN hour_buckets
    /\ hour_buckets[last_check[1].client_id].tokens >= TokenUnit
    /\ hour_buckets[last_check[1].client_id].last_check < now

\* what C10 says of one check_rate_limit step for a request
AdmitsExactlyWhenAllAdmit(request) ==
    LET client_id == get_client_id(request)
        minute_ok == Admits(minute_buckets, client_id, per_minute, 60)
        hour_ok == Admits(hour_buckets, client_id, per_hour, 3600)
        day_ok == Admits(day_buckets, client_id, per_day, 86400)
        call == last_check'[1]
    IN /\ call.result <=> (minute_ok /\ hour_ok /\ day_ok)
       \* minute first, then hour, then day, up to the first that denies
       /\ call.consumed =
            IF ~minute_ok THEN <<[window |-> "minute", ok |-> FALSE]>>
            ELSE IF ~hour_ok THEN <<[window |-> "minute", ok |-> TRUE],
                                    [window |-> "hour", ok |-> FALSE]>>
            ELSE <<[window |-> "minute", ok |-> TRUE],
                   [window |-> "hour", ok |-> TRUE],
                   [window |-> "day", ok |-> day_ok]>>
       /\ call.result
            => /\ DebitedOne(minute_buckets, minute_buckets', client_id, per_minute, 60)
               /\ DebitedOne(hour_buckets, hour_buckets', client_id, per_hour, 3600)
               /\ DebitedOne(day_buckets, day_buckets', client_id, per_day, 86400)

\* C10 as stated: check_rate_limit returns true exactly when the client's
\* minute, hour and day buckets all admit, asked in that order, and on a true
\* result each of the three buckets has been debited by exactly one token.
C10_Original_TrueIffAllAdmit ==
    [][\A request \in Requests :
          CheckRateLimit(request) => AdmitsExactlyWhenAllAdmit(request)]_vars

\* C10 as amended: the same, unless debug mode is on and the request comes
\* from the local host; then check_rate_limit returns true and no bucket is
\* asked, created or debited.
C10_TrueIffAllAdmitUnlessBypassed ==
    [][\A request \in Requests :
          CheckRateLimit(request)
              => IF Bypassed(request)
                 THEN /\ last_check'[1].result = TRUE
                      /\ last_check'[1].consumed = <<>>
                      /\ UNCHANGED <<minute_buckets, hour_buckets, day_buckets>>
                 ELSE AdmitsExactlyWhenAllAdmit(request)]_vars

C10_Witness ==
    /\ last_check # None
    /\ last_check[1].result
    /\ Len(last_check[1].consumed) = 3
    /\ day_buckets[last_check[1].client_id].tokens < TokenUnit
    /\ minute_buckets[last_check[1].client_id].last_check > 0

\* the step has refilled the client's bucket and taken nothing from it
RefilledOnly(buckets, after, client_id, tokens, window) ==
    /\ client_id \in DOMAIN after
    /\ after[client_id].tokens
         = TokensNow(BucketOf(buckets, client_id, tokens, window, now))
    /\ after[client_id].last_check = now

\* C11: when the minute bucket admits and the hour bucket denies,
\* check_rate_limit returns false, the minute bucket stays one token lower and
\* the day bucket is not charged; when minute and hour admit and the day
\* bucket denies, it returns false and minute and hour stay one token lower.
C11_LaterDenialKeepsEarlierDebits ==
    [][\A request \in Requests :
          LET client_id == get_client_id(request)
              minute_ok == Admits(minute_buckets, client_id, per_minute, 60)
              hour_ok == Admits(hour_buckets, client_id, per_hour, 3600)
              day_ok == Admits(day_buckets, client_id, per_day, 86400)
          IN (CheckRateLimit(request) /\ ~Bypassed(request) /\ minute_ok)
                => /\ ~hour_ok
                        => /\ last_check'[1].result = FALSE
                           /\ DebitedOne(minute_buckets, minute_buckets', client_id, per_minute, 60)
                           /\ RefilledOnly(hour_buckets, hour_buckets', client_id, per_hour, 3600)
                           /\ day_buckets' = day_buckets
                   /\ (hour_ok /\ ~day_ok)
                        => /\ last_check'[1].result = FALSE
                           /\ DebitedOne(minute_buckets, minute_buckets', client_id, per_minute, 60)
                           /\ DebitedOne(hour_buckets, hour_buckets', client_id, per_hour, 3600)
                           /\ RefilledOnly(day_buckets, day_buckets', client_id, per_day, 86400)]_vars

\* a call was just denied by the hour bucket of a client whose minute bucket
\* had a token, and whose day bucket still has one
C11_Witness ==
    /\ last_check # None
    /\ last_check[1].consumed = <<[window |-> "minute", ok |-> TRUE],
                                  [window |-> "hour", ok |-> FALSE]>>
    /\ ~last_check[1].result
    /\ minute_buckets[last_check[1].client_id].last_check = now
    /\ minute_buckets[last_check[1].client_id].tokens < per_minute * TokenUnit
    /\ day_buckets[last_check[1].client_id].tokens >= TokenUnit
    /\ day_buckets[last_check[1].client_id].last_check < now

\* a call was just denied by the day bucket after minute and hour admitted
C11_DayDenialReached ==
    /\ last_check # None
    /\ last_check[1].consumed = <<[window |-> "minute", ok |-> TRUE],
                                  [window |-> "hour", ok |-> TRUE],
                                  [window |-> "day", ok |-> FALSE]>>
    /\ hour_buckets[last_check[1].client_id].last_check = now

----------------------------------------------------------------------------
(* Properties of the TokenBucket                                            *)

\* C12: consume(cost) refills first, tokens becoming
\* min(capacity, tokens + elapsed / refill_interval) and last_check the
\* current time; it then returns true and takes exactly cost when the
\* refilled tokens are at least cost, and otherwise returns false and leaves
\* the refilled tokens as they are.  (Token counts are compared after
\* multiplying by the refill window, so that no division is involved.)
C12_ConsumeRefillsThenDebits ==
    [][\A cost \in 1..MaxCost :
          BucketConsume(cost)
              => LET b == bucket[1]
                     after == bucket'[1]
                     elapsed == now - b.last_check
                     \* tokens + elapsed / refill_interval, times the window
                     grown == b.tokens * b.refill_window
                                + elapsed * b.refill_count * TokenUnit
                     refilled == Min(b.max_tokens * b.refill_window, grown)
                     needed == cost * TokenUnit * b.refill_window
                     ok == consume_result'[1].ok
                 IN /\ after.last_check = now
                    /\ after.max_tokens = b.max_tokens
                    /\ ok <=> refilled >= needed
                    /\ ok => after.tokens * b.refill_window = refilled - needed
                    /\ ~ok => after.tokens * b.refill_window = refilled]_vars

\* a consume was denied some time after creation and left a refilled part of
\* a token in the bucket
C12_Witness ==
    /\ bucket # None
    /\ consume_result # None
    /\ ~consume_result[1].ok
    /\ bucket[1].tokens > 0
    /\ bucket[1].tokens < consume_result[1].cost * TokenUnit
    /\ bucket[1].last_check = now
    /\ now > 0

\* C13: a TokenBucket created full and used by consume calls under a clock
\* that never goes back always has 0 <= tokens <= capacity.
C13_TokensWithinCapacity ==
    bucket # None
        => /\ 0 <= bucket[1].tokens
           /\ bucket[1].tokens <= bucket[1].max_tokens

\* the bucket was emptied by a consume after it had been refilled
C13_Witness ==
    /\ bucket # None
    /\ bucket[1].tokens = 0
    /\ bucket[1].last_check > 0
    /\ Len(admitted) > bucket[1].refill_count

\* the admitted consume(1) calls from the i-th to the j-th
AdmittedBetween(i, j) == j - i + 1

\* C14: the consume(1) calls admitted within a time span T number at most
\* capacity + T / refill_interval; and a bucket of capacity 10 that refills
\* one token in 6 seconds, having admitted 10 calls at one instant, admits at
\* most 1 more in the calls made up to 6 seconds later.
C14_AdmissionsBounded ==
    bucket # None
        => LET b == bucket[1]
               capacity == b.refill_count
           IN /\ \A i, j \in 1..Len(admitted) :
                    i <= j
                       => AdmittedBetween(i, j) * b.refill_window
                            <= capacity * b.refill_window
                                 + (admitted[j] - admitted[i]) * b.refill_count
              /\ (capacity = 10 /\ b.refill_window = 6 * capacity)
                    => \A i \in 1..Len(admitted) :
                          (i + 9 <= Len(admitted) /\ admitted[i + 9] = admitted[i])
                             => Cardinality({k \in i..Len(admitted) :
                                               admitted[k] <= admitted[i] + 6}) <= 11

\* ten calls were admitted at time 0 and an eleventh 6 seconds later
C14_Witness ==
    /\ bucket # None
    /\ bucket[1].refill_count = 10
    /\ Len(admitted) = 11
    /\ admitted[10] = 0
    /\ admitted[11] = 6


----------------------------------------------------------------------------
(* Properties of consume and check_rate_limit under two threads             *)

\* both threads have returned from the method they were started on
BothDone(caller) ==
    \A t \in Threads : threads[t].pc = "done" /\ threads[t].caller = caller

\* C15: two consume() calls running at the same time on one bucket that
\* holds fewer than 2 tokens, refill included, do not both return true,
\* whatever the order of their steps.
C15_NoDoubleAdmit ==
    (/\ BothDone("consume")
     /\ Min(heap0[1].max_tokens,
            heap0[1].tokens + Refill(heap0[1], now - heap0[1].last_check))
          < 2 * TokenUnit)
        => ~(threads[1].result = Some(TRUE) /\ threads[2].result = Some(TRUE))

\* the TokenBucket objects constructed for a window
CreatedFor(w) ==
    {i \in 1..Len(heap) : heap[i].refill_window = WindowSeconds(w)}

\* C16: when two check_rate_limit calls for one client that the limiter has
\* not seen run at the same time, at most one bucket is ever constructed for
\* each window, and when both calls have been admitted each of the three
\* buckets has been debited twice (it holds at most its capacity less two
\* tokens, plus what it can have refilled since the start).
C16_OneBucketPerClientAndWindow ==
    (/\ \A t \in Threads : threads[t].caller = "check_rate_limit"
     /\ threads[1].client_id # None
     /\ threads[1].client_id = threads[2].client_id)
        => LET client_id == threads[1].client_id[1]
           IN \A k \in 1..3 :
                 /\ Cardinality(CreatedFor(Windows[k])) <= 1
                 /\ (/\ BothDone("check_rate_limit")
                     /\ threads[1].result = Some(TRUE)
                     /\ threads[2].result = Some(TRUE))
                       => LET b == heap[dicts[Windows[k]][client_id]]
                          IN b.tokens <= b.max_tokens - 2 * TokenUnit + Refill(b, now)

----------------------------------------------------------------------------
(* Properties of the MetricsCollector                                       *)

\* no thread is inside a method of the collector
Quiescent == \A t \in Threads : callers[t].pc = "idle"

\* C17: a thread is at a statement of a method's body only while it holds
\* the collector's lock, and whenever all calls made have returned,
\* request_count is the number of record_request calls and error_count the
\* number of record_error calls made since creation or the last reset.
C17_NoLostUpdate ==
    /\ \A t \in Threads : callers[t].pc \notin {"idle", "acquire"} => lock = t
    /\ Quiescent
          => /\ metrics.request_count = finished.record_request
             /\ metrics.error_count = finished.record_error

\* both threads have called record_request and one has called record_error
C17_Witness ==
    /\ Quiescent
    /\ \A t \in Threads : callers[t].calls = MaxCalls
    /\ finished.record_request = 2
    /\ finished.record_error >= 1
    /\ metrics.request_count = 2
    /\ DOMAIN metrics.requests_by_minute = {0, (MaxMetricsTime \div 60) * 60}

\* C18: after k record_response_time calls since creation or the last
\* reset, the window holds the min(k, 1000) most recent durations, oldest
\* first; a duration that arrives at a full window pushes the oldest out.
C18_WindowHoldsMostRecent ==
    LET k == Len(samples)
        n == Min(k, 1000)
    IN metrics.response_times = SubSeq(samples, k - n + 1, k)

\* more durations were recorded than the window holds
C18_Witness ==
    /\ Len(samples) > 1001
    /\ Len(metrics.response_times) = 1000
    /\ metrics.response_times[1000] # metrics.response_times[999]

----------------------------------------------------------------------------
(* Further properties of extract_references                                 *)

\* where sub first occurs in s (sub occurs in s)
FirstAt(sub, s) ==
    CHOOSE i \in 1..Len(s) :
        OccursAt(sub, s, i) /\ \A j \in 1..(i - 1) : ~OccursAt(sub, s, j)

\* C21: the cases list holds its entries in the order in which they first
\* appear in the text, whichever case pattern matched each of them.
C21_CasesInTextOrder ==
    refs # None =>
        LET cases == refs[1].cases
        IN \A i, j \in 1..Len(cases) :
               (/\ i < j
                /\ Contains(cases[i], text)
                /\ Contains(cases[j], text))
               => FirstAt(cases[i], text) <= FirstAt(cases[j], text)

\* the text between the nearest "." before position start and that position,
\* without the whitespace around it
FragmentBefore(start) ==
    LET dots == {k \in 1..(start - 1) : text[k] = "."}
        from == IF dots = {} THEN 1 ELSE (CHOOSE k \in dots : \A j \in dots : j <= k) + 1
    IN Strip(IF from > start - 1 THEN <<>> ELSE SubSeq(text, from, start - 1))

\* the case entry the fallback is to record for the citation match m
CitationEntry(m) ==
    LET citation == SubSeq(text, m.start, m.end - 1)
        fragment == FragmentBefore(m.start)
    IN IF fragment # <<>> /\ Len(fragment) < 100
       THEN fragment \o <<" ">> \o citation
       ELSE citation

\* C25: when the primary case patterns found a case the cases list is what
\* they found; when they found none and the text lacks "[" or "]" it is
\* empty; when they found none and the text has both, it holds one entry per
\* [YYYY] COURT NUMBER match, in order: the fragment between the nearest
\* preceding "." and the match followed by the citation when that fragment is
\* non-empty and shorter than 100 characters, the citation alone otherwise.
C25_FallbackOnlyWithoutPrimaryCases ==
    refs # None =>
        LET primary == ExtractCases(<<>>, text, 1)
            citations == FindIter(citation_pattern, text, 1, FALSE)
            cases == refs[1].cases
        IN IF primary # <<>> THEN cases = primary
           ELSE IF ~(HasChar("[", text) /\ HasChar("]", text)) THEN cases = <<>>
           ELSE cases = [k \in 1..Len(citations) |-> CitationEntry(citations[k])]

\* the fallback has recorded a citation with the sentence before it
C25_Witness ==
    /\ refs # None
    /\ ExtractCases(<<>>, text, 1) = <<>>
    /\ Len(refs[1].cases) = 2
    /\ refs[1].cases[2] = <<"S","e","e"," ","[","2","0","0","1","]"," ","U","K","H","L"," ","1">>

\* a citation after 99 characters is recorded with them, one after 100
\* characters alone
C25_LongFragmentReached ==
    /\ refs # None
    /\ Len(text) > 100
    /\ refs[1].cases = << <<"[","2","0","0","1","]"," ","U","K","H","L"," ","1">> >>

C25_ShortFragmentReached ==
    /\ refs # None
    /\ Len(text) > 100
    /\ Len(refs[1].cases) = 1
    /\ Len(refs[1].cases[1]) = 99 + 1 + 13

\* the primary patterns found a case in a text with a citation
C25_PrimaryCaseReached ==
    /\ refs # None
    /\ ExtractCases(<<>>, text, 1) # <<>>
    /\ FindIter(citation_pattern, text, 1, FALSE) # <<>>

----------------------------------------------------------------------------
(* Further properties of answer_question                                    *)

\* no legislation, case or form pattern matches in t, and t has no bracket
NoMatch(t) ==
    /\ \A k \in 1..Len(legislation_patterns) :
           FindIter(legislation_patterns[k], t, 1, TRUE) = <<>>
    /\ \A k \in 1..Len(case_patterns) : FindIter(case_patterns[k], t, 1, FALSE) = <<>>
    /\ \A k \in 1..Len(form_patterns) : FindIter(form_patterns[k], t, 1, TRUE) = <<>>
    /\ ~HasChar("[", t)

\* C22: a call that reached the provider ends with a returned result exactly
\* when its last provider call produced an answer text; every other end is the
\* exhausted-retries or the fatal RuntimeError (the fatal one for a malformed
\* response and for a non-retryable exception, the exhausted one after a
\* retryable exception), never another exception; and an answer in which
\* nothing matches is returned with three empty lists.
C22_NoRawProviderFailure ==
    (pc = "done" /\ NumCalls > 0) =>
        LET last == ResultOf(NumCalls)
        IN /\ Returned <=> last.kind = "content"
           /\ Returned => outcome[1].value._response = last.content
           /\ ~Returned => /\ Raised("RuntimeError")
                           /\ outcome[1].format \in {ExhaustedFormat, FatalFormat}
           /\ FailsFatally(NumCalls)
                => RaisedWith("RuntimeError", FatalFormat, ErrText(last.cls))
           /\ FailsRetryably(NumCalls)
                => RaisedWith("RuntimeError", ExhaustedFormat, ErrText(last.cls))
           /\ (last.kind = "content" /\ NoMatch(last.content))
                => outcome = Some([kind |-> "return",
                                   value |-> [_response |-> last.content,
                                              legislation |-> <<>>,
                                              cases |-> <<>>,
                                              forms |-> <<>>]])

\* a malformed response after a retryable failure has ended the call with
\* the fatal RuntimeError
C22_Witness ==
    /\ NumCalls = 2
    /\ FailsRetryably(1)
    /\ ResultOf(2).kind = "malformed"
    /\ RaisedWith("RuntimeError", FatalFormat, ErrText("KeyError"))

\* an answer without any reference was returned after a retryable failure
C22_EmptySuccessReached ==
    /\ NumCalls = 2
    /\ FailsRetryably(1)
    /\ Returned
    /\ NoMatch(ResultOf(2).content)
    /\ outcome[1].value.cases = <<>>

----------------------------------------------------------------------------
(* Further properties of the MetricsCollector                               *)

\* thread t has computed a summary and not yet returned it
Summarised(t) == callers[t].pc = "release" /\ callers[t].op = "get_summary"

\* C23: a summary reports the current request and error counters, an error
\* rate of error_count / request_count, and of 0 when no request is counted,
\* and as average response time the mean of the retained samples, 0 when
\* none is retained.
C23_SummaryMatchesCounters ==
    \A t \in Threads :
        Summarised(t) =>
            LET summary == callers[t].value
                rate == summary.error_rate
                average == summary.average_response_time
                window == metrics.response_times
            IN /\ summary.total_requests = metrics.request_count
               /\ summary.total_requests = finished.record_request
               /\ summary.total_errors = metrics.error_count
               /\ summary.total_errors = finished.record_error
               /\ rate.den # 0
               /\ IF metrics.request_count > 0
                  THEN rate.num * metrics.request_count = metrics.error_count * rate.den
                  ELSE rate.num = 0
               /\ average.den # 0
               /\ window = samples
               /\ IF window # <<>>
                  THEN average.num * Len(window) = Sum(window) * average.den
                  ELSE average.num = 0

\* a summary of one request, one error and one sample of 2 seconds
C23_Witness ==
    \E t \in Threads :
        /\ Summarised(t)
        /\ metrics.request_count = 1
        /\ metrics.error_count = 1
        /\ metrics.response_times = <<2>>
        /\ callers[t].value.error_rate = Ratio(1, 1)
        /\ callers[t].value.average_response_time = Ratio(2, 1)

\* a summary of two samples of 1 and 2 seconds
C23_MeanOfTwoReached ==
    \E t \in Threads :
        /\ Summarised(t)
        /\ metrics.response_times = <<1, 2>>
        /\ callers[t].value.average_response_time = Ratio(3, 2)

\* a summary of a collector without any request, after a reset
C23_EmptySummaryReached ==
    \E t \in Threads :
        /\ Summarised(t)
        /\ metrics.request_count = 0
        /\ callers[t].value.error_rate = Ratio(0, 1)
        /\ callers[t].calls = 2

\* the attempts so far that failed retryably
RetryableFailures == {k \in 1..NumCalls : FailsRetryably(k)}

\* C26: a backoff sleep follows every retryable failure, that of the last
\* attempt included: the sleeps are as many as the retryable failures, sleep
\* i (from 0) lasts 2^i seconds, and when all max_retries attempts failed
\* retryably the exhausted-retries error is raised after max_retries sleeps
\* of 2^max_retries - 1 seconds in all.
C26_SleepAfterEveryRetryableFailure ==
    /\ Len(sleeps) = Cardinality(RetryableFailures)
    /\ \A i \in 1..Len(sleeps) : sleeps[i] = 2^(i - 1)
    /\ (/\ pc \in {"after", "done"}
        /\ max_retries >= 1
        /\ RetryableFailures = 1..max_retries)
         => /\ Len(sleeps) = max_retries
            /\ Sum(sleeps) = 2^max_retries - 1
            /\ pc = "done" => Raised("RuntimeError") /\ outcome[1].format = ExhaustedFormat

\* all of MaxRetries attempts failed retryably and the error was raised after
\* the sleep that follows the last of them
C26_Witness ==
    /\ max_retries = MaxRetries
    /\ RetryableFailures = 1..MaxRetries
    /\ Raised("RuntimeError")
    /\ Len(sleeps) = MaxRetries
    /\ sleeps[MaxRetries] = 2^(MaxRetries - 1)

\* C27: a call with valid input, a credential and max_retries <= 0 never
\* invokes the provider and never sleeps; it ends with the exhausted-retries
\* RuntimeError whose last error reads None, and never with a result.
C27_NoAttemptWithoutRetries ==
    (Started /\ ValidInput /\ HasCredential /\ max_retries <= 0)
        => /\ create_calls = <<>>
           /\ sleeps = <<>>
           /\ pc \in {"after", "done"}
           /\ pc = "done" => RaisedWith("RuntimeError", ExhaustedFormat, "None")
           /\ ~Returned

C27_Witness ==
    /\ ValidInput
    /\ HasCredential
    /\ max_retries = 0 - MaxNegativeRetries
    /\ RaisedWith("RuntimeError", ExhaustedFormat, "None")
    /\ create_calls = <<>>

\* C28: a request handled inside one RequestTracker context raises the
\* collector's request_count by exactly one and its error_count by at most
\* one, so that error_count <= request_count after it.
C28_OneErrorPerTrackedRequest ==
    [][metrics' # metrics
          => /\ metrics'.request_count = metrics.request_count + 1
             /\ metrics'.error_count <= metrics.error_count + 1
             /\ metrics'.error_count <= metrics'.request_count]_vars

----------------------------------------------------------------------------
(* Properties of the batch runner                                           *)

MainStarted == main_pc # "idle"

\* main has ended in sys.exit(1) with exactly these lines printed
ExitedWith(lines) ==
    /\ main_pc = "exit"
    /\ exit_code = Some(1)
    /\ printed = lines
    /\ answer_calls = <<>>

TwoArguments == Len(sys_argv) - 1 = 2

KeySet == environ_key # None /\ environ_key # Some(<<>>)

\* C24: main exits with status 1 and without a call of answer_question when
\* it is not given exactly two arguments; else when OPENAI_API_KEY is unset;
\* else when the model is not a supported one; else when the input file does
\* not exist. The lines printed tell which check ended it, so the first
\* failing check in this order is the one that ends main.
C24_MainValidatesInOrder ==
    MainStarted =>
        /\ ~TwoArguments => ExitedWith(<<"COMMAND_LINE_PARAM">>)
        /\ (TwoArguments /\ environ_key = None)
             => ExitedWith(<<"Please set the environment variable OPENAI_API_KEY.">>)
        /\ (TwoArguments /\ KeySet /\ sys_argv[2] \notin ThreeModels)
             => ExitedWith(<<"COMMAND_LINE_PARAM", "Supported models:">>)
        /\ (TwoArguments /\ KeySet /\ sys_argv[2] \in ThreeModels /\ input_file = None)
             => ExitedWith(<<"Processing dataset: {mode} using model: {model}",
                            "Error: Input file not found: {input_file}">>)

\* the key is unset, the model is not supported and the file does not exist:
\* main has ended at the check of the key
C24_Witness ==
    /\ MainStarted
    /\ TwoArguments
    /\ environ_key = None
    /\ sys_argv[2] = "gpt-5"
    /\ input_file = None
    /\ exit_code = Some(1)

\* main has ended at the check of the input file
C24_FileCheckReached ==
    /\ TwoArguments /\ KeySet /\ sys_argv[2] = "gpt-4" /\ input_file = None
    /\ main_pc = "exit"

\* main has ended at the check of the model
C24_ModelCheckReached ==
    /\ TwoArguments /\ KeySet /\ sys_argv[2] = "gpt-5" /\ input_file = None
    /\ main_pc = "exit"

\* the calls of answer_question main made for row k, as positions of answer_calls
CallsFor(k) == {c \in 1..Len(answer_calls) : answer_calls[c].idx = k}

\* the calls that returned a result
Successes == {c \in 1..Len(answer_calls) : answer_calls[c].outcome.kind = "return"}

\* C29: what main records for a row is what a successful answer_question
\* call for that row returned (the response with its whitespace collapsed,
\* the lists joined by "|"); for a row whose three attempts all failed
\* nothing returned for an earlier row is recorded; and the attempts recorded
\* are the calls made for the row, between 1 and 3.
C29_RecordedForOwnQuestion ==
    \A k \in 1..Len(df) :
        k < idx =>
            /\ bot.bot_attempts[k] = Cardinality(CallsFor(k))
            /\ bot.bot_attempts[k] \in 1..3
            /\ IF CallsFor(k) \cap Successes # {}
               THEN \E c \in CallsFor(k) \cap Successes :
                        LET value == answer_calls[c].outcome.value
                        IN /\ bot.bot_responses[k] = CollapseSpaces(value._response)
                           /\ bot.bot_statutes[k] = Join(<<"|">>, value.legislation)
                           /\ bot.bot_cases[k] = Join(<<"|">>, value.cases)
                           /\ bot.bot_forms[k] = Join(<<"|">>, value.forms)
               ELSE \A c \in Successes :
                        LET value == answer_calls[c].outcome.value
                        IN (answer_calls[c].idx < k /\ value._response # <<>>)
                               => bot.bot_responses[k] # CollapseSpaces(value._response)

----------------------------------------------------------------------------
(* Further properties of the RateLimiter                                    *)

\* the step leaves the dictionary as the claim says: no client is removed, a
\* bucket that changes or appears is that of the calling client, and a bucket
\* that changes is the one that was there, after its consume(1)
FrameOf(before, after, caller) ==
    /\ DOMAIN before \subseteq DOMAIN after
    /\ \A c \in DOMAIN after \ DOMAIN before : c = caller
    /\ \A c \in DOMAIN before :
           after[c] # before[c]
               => /\ c = caller
                  /\ after[c] = Consume(before[c], now, 1).bucket

\* C30: a check_rate_limit call for one client leaves the minute, hour and
\* day buckets of every other client as they were, tokens and last_check;
\* and a client's bucket, once created, is neither removed nor replaced by a
\* later call.
C30_OtherClientsUntouched ==
    [][<<minute_buckets, hour_buckets, day_buckets>>'
            # <<minute_buckets, hour_buckets, day_buckets>>
          => /\ last_check' # None
             /\ FrameOf(minute_buckets, minute_buckets', last_check'[1].client_id)
             /\ FrameOf(hour_buckets, hour_buckets', last_check'[1].client_id)
             /\ FrameOf(day_buckets, day_buckets', last_check'[1].client_id)]_vars

\* two clients have their three buckets, and the client of the last call holds
\* fewer minute tokens than the other
C30_Witness ==
    /\ last_check # None
    /\ Cardinality(DOMAIN minute_buckets) = 2
    /\ Cardinality(DOMAIN day_buckets) = 2
    /\ \E other \in DOMAIN minute_buckets :
           /\ other # last_check[1].client_id
           /\ minute_buckets[other].tokens > minute_buckets[last_check[1].client_id].tokens

====
